---- MODULE Spec2Model ----
(***************************************************************************)
(* casbin-opentelemetry-logger: the OpenTelemetryLogger of the repository, *)
(* in its two construction variants (meter plus context, meter provider),  *)
(* driven by a host that owns one LogEntry at a time.                       *)
(*                                                                         *)
(* The metrics backend is outside the repository: an instrument is         *)
(* modelled by the calls it receives.  `emissions` holds the instrument    *)
(* calls and `invocations` the callback calls made by the operation that   *)
(* ran last (`op`), `ret` what that operation returned.                    *)
(***************************************************************************)
EXTENDS Integers, Sequences, FiniteSets, TLC

VARIABLES
    meter,              \* the meter handed to the constructor: the instrument names it refuses to create
    logger,             \* the *OpenTelemetryLogger the constructor returned, Nil for none
    err,                \* the error the constructor returned
    panic,              \* the value the constructor panicked with, Nil for no panic
    instruments,        \* the five instrument fields of the logger, by registered name
    variant,            \* which of the two OpenTelemetryLogger types the host constructs
    ctx,                \* l.ctx of the meter variant ("none": the provider variant has no such field)
    enabledEventTypes,  \* map[EventType]bool: a function from its keys to BOOLEAN
    callback,           \* func(entry *LogEntry) error, or Nil
    now,                \* the clock read by time.Now()
    entry,              \* the LogEntry the host currently holds
    op,                 \* the operation that ran last
    ret,                \* the error it returned
    emissions,          \* the instrument calls it made, in order
    invocations,        \* the callback calls it made, in order
    totals,             \* the backend's reading of each instrument over the whole run
    host,               \* a well-formed host's place in the life of its record, and its own tally
    goroutines,         \* the hook calls in flight, one goroutine and one record each
    configurator        \* the goroutine that reconfigures the logger meanwhile

\* What a constructor call leaves behind besides the logger's fields.
construction == <<meter, logger, err, panic, instruments>>

\* What the specification of the well-formed host keeps count of.
tallies == <<totals, host>>

\* What the specifications of concurrent calls keep.
concurrency == <<goroutines, configurator>>

vars == <<construction, variant, ctx, enabledEventTypes, callback, now, entry,
          op, ret, emissions, invocations, tallies, concurrency>>

-----------------------------------------------------------------------------
(* Bounds *)

\* The clock runs from 1 to MaxTime.
MaxTime == 2

\* The longest slice handed to SetEventTypes.
MaxLen == 2

\* The most calls of OnAfterEvent made in a row on one record.
MaxCalls == 3

-----------------------------------------------------------------------------
(* Types of the package *)

Nil == "nil"

EventEnforce == "EventEnforce"
EventAddPolicy == "EventAddPolicy"
EventRemovePolicy == "EventRemovePolicy"
EventLoadPolicy == "EventLoadPolicy"
EventSavePolicy == "EventSavePolicy"

\* An EventType is a string: the host can hand over one the logger does not know.
EventOther == "EventOther"

KnownEventTypes ==
    {EventEnforce, EventAddPolicy, EventRemovePolicy, EventLoadPolicy, EventSavePolicy}

PolicyEventTypes ==
    {EventAddPolicy, EventRemovePolicy, EventLoadPolicy, EventSavePolicy}

EventTypes == KnownEventTypes \cup {EventOther}

\* The zero time.Time.
ZeroTime == 0

\* The zero value of a LogEntry of the given event type.
LogEntry(eventType) ==
    [EventType |-> eventType,
     IsActive  |-> FALSE,
     StartTime |-> ZeroTime,
     EndTime   |-> ZeroTime,
     Duration  |-> 0,
     Subject   |-> "",
     Object    |-> "",
     Action    |-> "",
     Domain    |-> "",
     Allowed   |-> FALSE,
     RuleCount |-> 0,
     Error     |-> Nil]

-----------------------------------------------------------------------------
(* Library primitives the logger calls *)

\* make(map[EventType]bool)
MakeMap == [k \in {} |-> TRUE]

\* m[k] = v
MapSet(m, k, v) == [x \in (DOMAIN m) \cup {k} |-> IF x = k THEN v ELSE m[x]]

\* m[k]: the zero value, false, for a missing key
MapGet(m, k) == IF k \in DOMAIN m THEN m[k] ELSE FALSE

\* len(m)
MapLen(m) == Cardinality(DOMAIN m)

\* The operands of Sub the wrong way round.
Sub_Swapped(a, b) == b - a

\* a.Sub(b) of two time.Time
Sub(a, b) == a - b

\* d.Seconds(): whole seconds plus the nanoseconds left over
Seconds(d) == [sec |-> d \div 1000000000, nsec |-> d % 1000000000]

\* attribute.String(k, v)
AttrString(k, v) == <<k, v>>

\* metric.WithAttributes(attrs...): the attribute set of the slice
WithAttributes(attrs) == {attrs[i] : i \in DOMAIN attrs}

\* context.Background()
Background == "background"

\* One call of Record or Add on an instrument.
Call(instrument, c, value, attrs) ==
    [instrument |-> instrument, ctx |-> c, value |-> value,
     attrs |-> WithAttributes(attrs)]

-----------------------------------------------------------------------------
(* The five instruments, by the names they are registered under *)

enforceDuration == "casbin.enforce.duration"
enforceTotal == "casbin.enforce.total"
policyOpsTotal == "casbin.policy.operations.total"
policyOpsDuration == "casbin.policy.operations.duration"
policyRulesCount == "casbin.policy.rules.count"

Instruments ==
    {enforceDuration, enforceTotal, policyOpsTotal, policyOpsDuration, policyRulesCount}

-----------------------------------------------------------------------------
(* The user's callbacks: what a callback returns is the user's choice *)

cbNil == "cbNil"
cbErr == "cbErr"
Callbacks == {cbNil, cbErr}

CallbackError == "callback error"

\* callback(entry)
CallbackReturn(cb, e) == IF cb = cbErr THEN CallbackError ELSE Nil

\* One call of the callback: the entry it was handed, and how many instrument
\* calls the operation had made before it.
Invocation(cb, e, emitted) == [callback |-> cb, entry |-> e, emitted |-> Len(emitted)]

-----------------------------------------------------------------------------
(* The meter variant: OpenTelemetryLogger with a meter and a context *)

\* The range loop of SetEventTypes from element i on.
RECURSIVE SetEach(_, _, _)
SetEach(m, eventTypes, i) ==
    IF i > Len(eventTypes) THEN m
    ELSE SetEach(MapSet(m, eventTypes[i], TRUE), eventTypes, i + 1)

\* SetEventTypes adding to the map it finds instead of making a new one.
SetEventTypes_Merge(eventTypes) == SetEach(enabledEventTypes, eventTypes, 1)

\* SetEventTypes leaving the filter alone when it is given no kinds.
SetEventTypes_IgnoresEmpty(eventTypes) ==
    IF Len(eventTypes) = 0 THEN enabledEventTypes ELSE SetEach(MakeMap, eventTypes, 1)

\* SetEventTypes: the new l.enabledEventTypes.
SetEventTypes(eventTypes) == SetEach(MakeMap, eventTypes, 1)

\* OnBeforeEvent stamping the start time before it looks at the filter.
OnBeforeEvent_StampFirst(enabled, e, t) ==
    IF MapLen(enabled) > 0 /\ ~MapGet(enabled, e.EventType)
    THEN [entry |-> [e EXCEPT !.IsActive = FALSE, !.StartTime = t], ret |-> Nil]
    ELSE [entry |-> [e EXCEPT !.IsActive = TRUE, !.StartTime = t], ret |-> Nil]

\* OnBeforeEvent forgetting the start time of an entry it lets through.
OnBeforeEvent_NoStamp(enabled, e, t) ==
    IF MapLen(enabled) > 0 /\ ~MapGet(enabled, e.EventType)
    THEN [entry |-> [e EXCEPT !.IsActive = FALSE], ret |-> Nil]
    ELSE [entry |-> [e EXCEPT !.IsActive = TRUE], ret |-> Nil]

\* OnBeforeEvent: the entry as the call leaves it, and the error returned.
OnBeforeEvent(enabled, e, t) ==
    IF MapLen(enabled) > 0 /\ ~MapGet(enabled, e.EventType)
    THEN [entry |-> [e EXCEPT !.IsActive = FALSE], ret |-> Nil]
    ELSE [entry |-> [e EXCEPT !.IsActive = TRUE, !.StartTime = t], ret |-> Nil]

\* recordEnforceMetrics without the default for an empty domain.
recordEnforceMetrics_NoDefault(c, e) ==
    LET domain == e.Domain
        allowed == IF e.Allowed THEN "true" ELSE "false"
        attrs == <<AttrString("allowed", allowed), AttrString("domain", domain)>>
    IN  <<Call(enforceDuration, c, Seconds(e.Duration), attrs),
          Call(enforceTotal, c, 1, attrs)>>

\* recordEnforceMetrics counting the allowed evaluations only.
recordEnforceMetrics_CountsAllowed(c, e) ==
    LET domain == IF e.Domain = "" THEN "default" ELSE e.Domain
        allowed == IF e.Allowed THEN "true" ELSE "false"
        attrs == <<AttrString("allowed", allowed), AttrString("domain", domain)>>
    IN  <<Call(enforceDuration, c, Seconds(e.Duration), attrs)>>
        \o (IF e.Allowed THEN <<Call(enforceTotal, c, 1, attrs)>> ELSE <<>>)

\* recordEnforceMetrics recording under a background context, not the stored one.
recordEnforceMetrics_BackgroundContext(c, e) ==
    LET domain == IF e.Domain = "" THEN "default" ELSE e.Domain
        allowed == IF e.Allowed THEN "true" ELSE "false"
        attrs == <<AttrString("allowed", allowed), AttrString("domain", domain)>>
    IN  <<Call(enforceDuration, Background, Seconds(e.Duration), attrs),
          Call(enforceTotal, Background, 1, attrs)>>

\* recordEnforceMetrics: the instrument calls it makes.
recordEnforceMetrics(c, e) ==
    LET domain == IF e.Domain = "" THEN "default" ELSE e.Domain
        allowed == IF e.Allowed THEN "true" ELSE "false"
        attrs == <<AttrString("allowed", allowed), AttrString("domain", domain)>>
    IN  <<Call(enforceDuration, c, Seconds(e.Duration), attrs),
          Call(enforceTotal, c, 1, attrs)>>

\* recordPolicyMetrics tagging the duration like the counter, success included.
recordPolicyMetrics_DurationAttrs(c, e) ==
    LET operation == e.EventType
        success == IF e.Error # Nil THEN "false" ELSE "true"
        opsAttrs == <<AttrString("operation", operation), AttrString("success", success)>>
        countAttrs == <<AttrString("operation", operation)>>
    IN  <<Call(policyOpsTotal, c, 1, opsAttrs),
          Call(policyOpsDuration, c, Seconds(e.Duration), opsAttrs)>>
        \o (IF e.RuleCount > 0
            THEN <<Call(policyRulesCount, c, e.RuleCount, countAttrs)>>
            ELSE <<>>)

\* recordPolicyMetrics recording under a background context, not the stored one.
recordPolicyMetrics_BackgroundContext(c, e) ==
    LET operation == e.EventType
        success == IF e.Error # Nil THEN "false" ELSE "true"
        opsAttrs == <<AttrString("operation", operation), AttrString("success", success)>>
        durationAttrs == <<AttrString("operation", operation)>>
        countAttrs == <<AttrString("operation", operation)>>
    IN  <<Call(policyOpsTotal, Background, 1, opsAttrs),
          Call(policyOpsDuration, Background, Seconds(e.Duration), durationAttrs)>>
        \o (IF e.RuleCount > 0
            THEN <<Call(policyRulesCount, Background, e.RuleCount, countAttrs)>>
            ELSE <<>>)

\* recordPolicyMetrics: the instrument calls it makes.
recordPolicyMetrics(c, e) ==
    LET operation == e.EventType
        success == IF e.Error # Nil THEN "false" ELSE "true"
        opsAttrs == <<AttrString("operation", operation), AttrString("success", success)>>
        durationAttrs == <<AttrString("operation", operation)>>
        countAttrs == <<AttrString("operation", operation)>>
    IN  <<Call(policyOpsTotal, c, 1, opsAttrs),
          Call(policyOpsDuration, c, Seconds(e.Duration), durationAttrs)>>
        \o (IF e.RuleCount > 0
            THEN <<Call(policyRulesCount, c, e.RuleCount, countAttrs)>>
            ELSE <<>>)

\* The switch with a default case that records a policy operation.
recordMetrics_DefaultPolicy(c, e) ==
    CASE e.EventType = EventEnforce -> recordEnforceMetrics(c, e)
      [] OTHER -> recordPolicyMetrics(c, e)

\* The switch on entry.EventType of OnAfterEvent.
recordMetrics(c, e) ==
    CASE e.EventType = EventEnforce -> recordEnforceMetrics(c, e)
      [] e.EventType \in PolicyEventTypes -> recordPolicyMetrics(c, e)
      [] OTHER -> <<>>

\* OnAfterEvent without the early return for an inactive entry.
OnAfterEvent_NoActiveCheck(cb, c, e, t) ==
    LET e1 == [e EXCEPT !.EndTime = t]
        e2 == [e1 EXCEPT !.Duration = Sub(e1.EndTime, e1.StartTime)]
        emitted == recordMetrics(c, e2)
    IN  IF cb # Nil
        THEN [entry |-> e2, emissions |-> emitted,
              invocations |-> <<Invocation(cb, e2, emitted)>>,
              ret |-> CallbackReturn(cb, e2)]
        ELSE [entry |-> e2, emissions |-> emitted, invocations |-> <<>>,
              ret |-> Nil]

\* OnAfterEvent calling the callback before the metrics and giving up when it fails.
OnAfterEvent_CallbackBeforeMetrics(cb, c, e, t) ==
    IF ~e.IsActive
    THEN [entry |-> e, emissions |-> <<>>, invocations |-> <<>>, ret |-> Nil]
    ELSE LET e1 == [e EXCEPT !.EndTime = t]
             e2 == [e1 EXCEPT !.Duration = Sub(e1.EndTime, e1.StartTime)]
             emitted == recordMetrics(c, e2)
         IN  IF cb # Nil
             THEN IF CallbackReturn(cb, e2) # Nil
                  THEN [entry |-> e2, emissions |-> <<>>,
                        invocations |-> <<Invocation(cb, e2, <<>>)>>,
                        ret |-> CallbackReturn(cb, e2)]
                  ELSE [entry |-> e2, emissions |-> emitted,
                        invocations |-> <<Invocation(cb, e2, <<>>)>>,
                        ret |-> Nil]
             ELSE [entry |-> e2, emissions |-> emitted, invocations |-> <<>>,
                   ret |-> Nil]

\* OnAfterEvent handing the entry's own error back when no callback is set.
OnAfterEvent_ReturnsEntryError(cb, c, e, t) ==
    IF ~e.IsActive
    THEN [entry |-> e, emissions |-> <<>>, invocations |-> <<>>, ret |-> Nil]
    ELSE LET e1 == [e EXCEPT !.EndTime = t]
             e2 == [e1 EXCEPT !.Duration = Sub(e1.EndTime, e1.StartTime)]
             emitted == recordMetrics(c, e2)
         IN  IF cb # Nil
             THEN [entry |-> e2, emissions |-> emitted,
                   invocations |-> <<Invocation(cb, e2, emitted)>>,
                   ret |-> CallbackReturn(cb, e2)]
             ELSE [entry |-> e2, emissions |-> emitted, invocations |-> <<>>,
                   ret |-> e2.Error]

\* OnAfterEvent marking the entry inactive once it has recorded it.
OnAfterEvent_ClearsActive(cb, c, e, t) ==
    IF ~e.IsActive
    THEN [entry |-> e, emissions |-> <<>>, invocations |-> <<>>, ret |-> Nil]
    ELSE LET e1 == [e EXCEPT !.EndTime = t]
             e2 == [e1 EXCEPT !.Duration = Sub(e1.EndTime, e1.StartTime)]
             emitted == recordMetrics(c, e2)
             e3 == [e2 EXCEPT !.IsActive = FALSE]
         IN  IF cb # Nil
             THEN [entry |-> e3, emissions |-> emitted,
                   invocations |-> <<Invocation(cb, e3, emitted)>>,
                   ret |-> CallbackReturn(cb, e3)]
             ELSE [entry |-> e3, emissions |-> emitted, invocations |-> <<>>,
                   ret |-> Nil]

\* OnAfterEvent: the entry as the call leaves it, the instrument calls and the
\* callback calls it makes, and the error returned.
OnAfterEvent(cb, c, e, t) ==
    IF ~e.IsActive
    THEN [entry |-> e, emissions |-> <<>>, invocations |-> <<>>, ret |-> Nil]
    ELSE LET e1 == [e EXCEPT !.EndTime = t]
             e2 == [e1 EXCEPT !.Duration = Sub(e1.EndTime, e1.StartTime)]
             emitted == recordMetrics(c, e2)
         IN  IF cb # Nil
             THEN [entry |-> e2, emissions |-> emitted,
                   invocations |-> <<Invocation(cb, e2, emitted)>>,
                   ret |-> CallbackReturn(cb, e2)]
             ELSE [entry |-> e2, emissions |-> emitted, invocations |-> <<>>,
                   ret |-> Nil]

\* SetLogCallback keeping the callback it has when handed nil.
SetLogCallback_IgnoresNil(cb) == IF cb = Nil THEN callback ELSE cb

\* SetLogCallback: the new l.callback.
SetLogCallback(cb) == cb

\* The getters, of a logger with the instrument fields l.
GetEnforceDuration(l) == l[enforceDuration]
GetEnforceTotal(l) == l[enforceTotal]
GetPolicyOpsTotal(l) == l[policyOpsTotal]
GetPolicyOpsDuration(l) == l[policyOpsDuration]

\* GetPolicyRulesCount handing out the operations counter.
GetPolicyRulesCount_WrongField(l) == l[policyOpsTotal]

GetPolicyRulesCount(l) == l[policyRulesCount]

-----------------------------------------------------------------------------
(* The provider variant: OpenTelemetryLogger with a meter provider *)

\* The range loop of SetEventTypes from element i on.
RECURSIVE SetEach_provider(_, _, _)
SetEach_provider(m, eventTypes, i) ==
    IF i > Len(eventTypes) THEN m
    ELSE SetEach_provider(MapSet(m, eventTypes[i], TRUE), eventTypes, i + 1)

SetEventTypes_provider(eventTypes) == SetEach_provider(MakeMap, eventTypes, 1)

\* OnBeforeEvent without the len(...) > 0 test: an empty map filters every kind.
OnBeforeEvent_provider_NoLen(enabled, e, t) ==
    IF ~MapGet(enabled, e.EventType)
    THEN [entry |-> [e EXCEPT !.IsActive = FALSE], ret |-> Nil]
    ELSE [entry |-> [e EXCEPT !.IsActive = TRUE, !.StartTime = t], ret |-> Nil]

\* OnBeforeEvent writing the default domain into an entry that has none.
OnBeforeEvent_provider_DefaultsDomain(enabled, e, t) ==
    IF MapLen(enabled) > 0 /\ ~MapGet(enabled, e.EventType)
    THEN [entry |-> [e EXCEPT !.IsActive = FALSE], ret |-> Nil]
    ELSE [entry |-> [e EXCEPT !.IsActive = TRUE, !.StartTime = t,
                              !.Domain = IF e.Domain = "" THEN "default" ELSE e.Domain],
          ret |-> Nil]

OnBeforeEvent_provider(enabled, e, t) ==
    IF MapLen(enabled) > 0 /\ ~MapGet(enabled, e.EventType)
    THEN [entry |-> [e EXCEPT !.IsActive = FALSE], ret |-> Nil]
    ELSE [entry |-> [e EXCEPT !.IsActive = TRUE, !.StartTime = t], ret |-> Nil]

\* recordEnforceMetrics tagging the counter with the outcome alone.
recordEnforceMetrics_provider_CounterAttrs(e) ==
    LET domain == IF e.Domain = "" THEN "default" ELSE e.Domain
        allowed == IF e.Allowed THEN "true" ELSE "false"
        c == Background
        attrs == <<AttrString("allowed", allowed), AttrString("domain", domain)>>
    IN  <<Call(enforceDuration, c, Seconds(e.Duration), attrs),
          Call(enforceTotal, c, 1, <<AttrString("allowed", allowed)>>)>>

recordEnforceMetrics_provider(e) ==
    LET domain == IF e.Domain = "" THEN "default" ELSE e.Domain
        allowed == IF e.Allowed THEN "true" ELSE "false"
        c == Background
        attrs == <<AttrString("allowed", allowed), AttrString("domain", domain)>>
    IN  <<Call(enforceDuration, c, Seconds(e.Duration), attrs),
          Call(enforceTotal, c, 1, attrs)>>

\* recordPolicyMetrics counting a failed operation and recording nothing more.
recordPolicyMetrics_provider_StopOnError(e) ==
    LET operation == e.EventType
        success == IF e.Error # Nil THEN "false" ELSE "true"
        c == Background
        opAttrs == <<AttrString("operation", operation), AttrString("success", success)>>
        durationAttrs == <<AttrString("operation", operation)>>
    IN  IF e.Error # Nil
        THEN <<Call(policyOpsTotal, c, 1, opAttrs)>>
        ELSE <<Call(policyOpsTotal, c, 1, opAttrs),
               Call(policyOpsDuration, c, Seconds(e.Duration), durationAttrs)>>
             \o (IF e.RuleCount > 0
                 THEN <<Call(policyRulesCount, c, e.RuleCount, durationAttrs)>>
                 ELSE <<>>)

\* recordPolicyMetrics recording the gauge for every count but zero.
recordPolicyMetrics_provider_NonZero(e) ==
    LET operation == e.EventType
        success == IF e.Error # Nil THEN "false" ELSE "true"
        c == Background
        opAttrs == <<AttrString("operation", operation), AttrString("success", success)>>
        durationAttrs == <<AttrString("operation", operation)>>
    IN  <<Call(policyOpsTotal, c, 1, opAttrs),
          Call(policyOpsDuration, c, Seconds(e.Duration), durationAttrs)>>
        \o (IF e.RuleCount # 0
            THEN <<Call(policyRulesCount, c, e.RuleCount, durationAttrs)>>
            ELSE <<>>)

\* recordPolicyMetrics recording the gauge with the attributes of the counter.
recordPolicyMetrics_provider_GaugeOpAttrs(e) ==
    LET operation == e.EventType
        success == IF e.Error # Nil THEN "false" ELSE "true"
        c == Background
        opAttrs == <<AttrString("operation", operation), AttrString("success", success)>>
        durationAttrs == <<AttrString("operation", operation)>>
    IN  <<Call(policyOpsTotal, c, 1, opAttrs),
          Call(policyOpsDuration, c, Seconds(e.Duration), durationAttrs)>>
        \o (IF e.RuleCount > 0
            THEN <<Call(policyRulesCount, c, e.RuleCount, opAttrs)>>
            ELSE <<>>)

recordPolicyMetrics_provider(e) ==
    LET operation == e.EventType
        success == IF e.Error # Nil THEN "false" ELSE "true"
        c == Background
        opAttrs == <<AttrString("operation", operation), AttrString("success", success)>>
        durationAttrs == <<AttrString("operation", operation)>>
    IN  <<Call(policyOpsTotal, c, 1, opAttrs),
          Call(policyOpsDuration, c, Seconds(e.Duration), durationAttrs)>>
        \o (IF e.RuleCount > 0
            THEN <<Call(policyRulesCount, c, e.RuleCount, durationAttrs)>>
            ELSE <<>>)

recordMetrics_provider(e) ==
    CASE e.EventType = EventEnforce -> recordEnforceMetrics_provider(e)
      [] e.EventType \in PolicyEventTypes -> recordPolicyMetrics_provider(e)
      [] OTHER -> <<>>

\* OnAfterEvent returning early for an inactive entry only after the callback.
OnAfterEvent_provider_CallbackFirst(cb, e, t) ==
    IF ~e.IsActive
    THEN IF cb # Nil
         THEN [entry |-> e, emissions |-> <<>>,
               invocations |-> <<Invocation(cb, e, <<>>)>>,
               ret |-> CallbackReturn(cb, e)]
         ELSE [entry |-> e, emissions |-> <<>>, invocations |-> <<>>, ret |-> Nil]
    ELSE LET e1 == [e EXCEPT !.EndTime = t]
             e2 == [e1 EXCEPT !.Duration = Sub(e1.EndTime, e1.StartTime)]
             emitted == recordMetrics_provider(e2)
         IN  IF cb # Nil
             THEN [entry |-> e2, emissions |-> emitted,
                   invocations |-> <<Invocation(cb, e2, emitted)>>,
                   ret |-> CallbackReturn(cb, e2)]
             ELSE [entry |-> e2, emissions |-> emitted, invocations |-> <<>>,
                   ret |-> Nil]

\* OnAfterEvent stamping the end time before it looks at IsActive.
OnAfterEvent_provider_StampsInactive(cb, e, t) ==
    LET e1 == [e EXCEPT !.EndTime = t]
    IN  IF ~e.IsActive
        THEN [entry |-> e1, emissions |-> <<>>, invocations |-> <<>>, ret |-> Nil]
        ELSE LET e2 == [e1 EXCEPT !.Duration = Sub(e1.EndTime, e1.StartTime)]
                 emitted == recordMetrics_provider(e2)
             IN  IF cb # Nil
                 THEN [entry |-> e2, emissions |-> emitted,
                       invocations |-> <<Invocation(cb, e2, emitted)>>,
                       ret |-> CallbackReturn(cb, e2)]
                 ELSE [entry |-> e2, emissions |-> emitted, invocations |-> <<>>,
                       ret |-> Nil]

\* OnAfterEvent looking the kind up in the map of enabled kinds once more.
OnAfterEvent_provider_ChecksFilter(cb, e, t) ==
    IF ~e.IsActive
       \/ (MapLen(enabledEventTypes) > 0 /\ ~MapGet(enabledEventTypes, e.EventType))
    THEN [entry |-> e, emissions |-> <<>>, invocations |-> <<>>, ret |-> Nil]
    ELSE LET e1 == [e EXCEPT !.EndTime = t]
             e2 == [e1 EXCEPT !.Duration = Sub(e1.EndTime, e1.StartTime)]
             emitted == recordMetrics_provider(e2)
         IN  IF cb # Nil
             THEN [entry |-> e2, emissions |-> emitted,
                   invocations |-> <<Invocation(cb, e2, emitted)>>,
                   ret |-> CallbackReturn(cb, e2)]
             ELSE [entry |-> e2, emissions |-> emitted, invocations |-> <<>>,
                   ret |-> Nil]

\* OnAfterEvent handing the callback the entry as it came in.
OnAfterEvent_provider_StaleEntry(cb, e, t) ==
    IF ~e.IsActive
    THEN [entry |-> e, emissions |-> <<>>, invocations |-> <<>>, ret |-> Nil]
    ELSE LET e1 == [e EXCEPT !.EndTime = t]
             e2 == [e1 EXCEPT !.Duration = Sub(e1.EndTime, e1.StartTime)]
             emitted == recordMetrics_provider(e2)
         IN  IF cb # Nil
             THEN [entry |-> e2, emissions |-> emitted,
                   invocations |-> <<Invocation(cb, e, emitted)>>,
                   ret |-> CallbackReturn(cb, e)]
             ELSE [entry |-> e2, emissions |-> emitted, invocations |-> <<>>,
                   ret |-> Nil]

OnAfterEvent_provider(cb, e, t) ==
    IF ~e.IsActive
    THEN [entry |-> e, emissions |-> <<>>, invocations |-> <<>>, ret |-> Nil]
    ELSE LET e1 == [e EXCEPT !.EndTime = t]
             e2 == [e1 EXCEPT !.Duration = Sub(e1.EndTime, e1.StartTime)]
             emitted == recordMetrics_provider(e2)
         IN  IF cb # Nil
             THEN [entry |-> e2, emissions |-> emitted,
                   invocations |-> <<Invocation(cb, e2, emitted)>>,
                   ret |-> CallbackReturn(cb, e2)]
             ELSE [entry |-> e2, emissions |-> emitted, invocations |-> <<>>,
                   ret |-> Nil]

SetLogCallback_provider(cb) == cb

-----------------------------------------------------------------------------
(* The host: it builds the entries, sets the kind-specific fields and calls *)
(* the hooks and the configuration operations                               *)

Meter == "meter"
Provider == "provider"

\* A context the host made for its request, handed to NewOpenTelemetryLoggerWithContext.
RequestContext == "request"

\* The provider variant keeps no context.
NoContext == "none"

Domains == {"", "domain1"}
RuleCounts == {-1, 0, 5}
Errors == {Nil, "test error"}

\* The entries the host builds at time t.  It leaves IsActive and StartTime
\* zero, or marks the entry active itself with a StartTime that has passed.
HostEntries(t) ==
    LET stamped(e) ==
            {e} \cup {[e EXCEPT !.IsActive = TRUE, !.StartTime = s] : s \in 1..t}
        enforce ==
            {[LogEntry(EventEnforce) EXCEPT !.Subject = "alice", !.Object = "data1",
                                            !.Action = "read", !.Domain = d,
                                            !.Allowed = a] :
                d \in Domains, a \in BOOLEAN}
        policy ==
            {[LogEntry(k) EXCEPT !.RuleCount = n, !.Error = failure] :
                k \in PolicyEventTypes, n \in RuleCounts, failure \in Errors}
        other == {LogEntry(EventOther)}
    IN  UNION {stamped(e) : e \in enforce \cup policy \cup other}

\* The event types the host filters on.
FilterEventTypes == {EventEnforce, EventAddPolicy, EventRemovePolicy}

\* The slices of at most n of them, in any order and with repetitions.
RECURSIVE Slices(_)
Slices(n) ==
    IF n = 0 THEN {<<>>}
    ELSE LET shorter == Slices(n - 1)
         IN  shorter \cup {Append(s, k) : s \in {x \in shorter : Len(x) = n - 1},
                                          k \in FilterEventTypes}

EventTypeSlices == Slices(MaxLen)

-----------------------------------------------------------------------------
(* Construction *)

\* The meters the host may hand over: each refuses some of the five names.
Meters == SUBSET Instruments

\* A meter that creates every instrument.
WorkingMeter == {}

\* meter.Float64Histogram / Int64Counter / Int64Gauge: the instrument and the
\* error.  The error of a refused name is identified by that name.
Register(m, name) ==
    IF name \in m THEN [instrument |-> Nil, err |-> name]
    ELSE [instrument |-> name, err |-> Nil]

\* The order in which the constructors create the instruments.
CreationOrder ==
    <<enforceDuration, enforceTotal, policyOpsTotal, policyOpsDuration, policyRulesCount>>

\* The instrument fields of a struct literal that does not name them.
ZeroInstruments == [name \in Instruments |-> Nil]

\* A pointer to a logger is a sequence of at most one struct; nil is the empty one.
NilLogger == <<>>

\* The registrations of the meter variant from the i-th on: the first error
\* ends the constructor with `return nil, err`.
RECURSIVE RegisterFrom(_, _, _)
RegisterFrom(m, l, i) ==
    IF i > Len(CreationOrder) THEN [logger |-> <<l>>, err |-> Nil, panic |-> Nil]
    ELSE LET r == Register(m, CreationOrder[i])
             l1 == [l EXCEPT !.instruments[CreationOrder[i]] = r.instrument]
         IN  IF r.err # Nil
             THEN [logger |-> NilLogger, err |-> r.err, panic |-> Nil]
             ELSE RegisterFrom(m, l1, i + 1)

\* The constructor handing back the logger it allocated along with the error.
NewOpenTelemetryLoggerWithContext_ReturnsLogger(c, m) ==
    LET l == [enabledEventTypes |-> MakeMap, callback |-> Nil, ctx |-> c,
              instruments |-> ZeroInstruments]
        r == RegisterFrom(m, l, 1)
    IN  IF r.err # Nil THEN [r EXCEPT !.logger = <<l>>] ELSE r

\* NewOpenTelemetryLoggerWithContext(ctx, meter)
NewOpenTelemetryLoggerWithContext(c, m) ==
    RegisterFrom(m, [enabledEventTypes |-> MakeMap, callback |-> Nil, ctx |-> c,
                     instruments |-> ZeroInstruments], 1)

\* NewOpenTelemetryLogger(meter)
NewOpenTelemetryLogger(m) == NewOpenTelemetryLoggerWithContext(Background, m)

\* The registrations of the provider variant from the i-th on: the first error
\* ends the constructor with `panic(err)`, nothing is returned.
RECURSIVE RegisterFrom_provider(_, _, _)
RegisterFrom_provider(m, l, i) ==
    IF i > Len(CreationOrder) THEN [logger |-> <<l>>, err |-> Nil, panic |-> Nil]
    ELSE LET r == Register(m, CreationOrder[i])
             l1 == [l EXCEPT !.instruments[CreationOrder[i]] = r.instrument]
         IN  IF r.err # Nil
             THEN [logger |-> NilLogger, err |-> Nil, panic |-> r.err]
             ELSE RegisterFrom_provider(m, l1, i + 1)

\* The constructor that never creates the gauge.
NewOpenTelemetryLoggerWithMeterProvider_NoGauge(m) ==
    LET r == RegisterFrom_provider(m, [enabledEventTypes |-> MakeMap, callback |-> Nil,
                                       ctx |-> NoContext,
                                       instruments |-> ZeroInstruments], 1)
    IN  IF r.logger = NilLogger THEN r
        ELSE [r EXCEPT !.logger[1].instruments[policyRulesCount] = Nil]

\* NewOpenTelemetryLoggerWithMeterProvider(provider), m the meter that
\* provider.Meter(meterName) gives.
NewOpenTelemetryLoggerWithMeterProvider(m) ==
    RegisterFrom_provider(m, [enabledEventTypes |-> MakeMap, callback |-> Nil,
                              ctx |-> NoContext,
                              instruments |-> ZeroInstruments], 1)

\* NewOpenTelemetryLogger(), m the meter of otel.GetMeterProvider().
NewOpenTelemetryLogger_provider(m) == NewOpenTelemetryLoggerWithMeterProvider(m)

\* The fields read where there is no logger.
NoLogger ==
    [enabledEventTypes |-> MakeMap, callback |-> Nil, ctx |-> NoContext,
     instruments |-> ZeroInstruments]

\* The reading of the backend before any call.
ZeroTotals == [name \in Instruments |-> 0]

\* No tally is kept.
NoTally ==
    /\ totals = ZeroTotals
    /\ host = [phase |-> "none"]

\* One goroutine makes all the calls, one at a time.
NoConcurrency ==
    /\ goroutines = <<>>
    /\ configurator = [pc |-> "none"]

\* The host holds what the constructor call r on meter m gave.
Holds(m, r) ==
    LET l == IF r.logger = NilLogger THEN NoLogger ELSE r.logger[1]
    IN  /\ meter = m
        /\ logger = IF r.logger = NilLogger THEN Nil ELSE "logger"
        /\ err = r.err
        /\ panic = r.panic
        /\ instruments = l.instruments
        /\ ctx = l.ctx
        /\ enabledEventTypes = l.enabledEventTypes
        /\ callback = l.callback

\* The host has constructed its logger on a working meter.
Init ==
    /\ \/ /\ variant = Meter
          /\ Holds(WorkingMeter,
                   NewOpenTelemetryLoggerWithContext(RequestContext, WorkingMeter))
       \/ /\ variant = Provider
          /\ Holds(WorkingMeter, NewOpenTelemetryLoggerWithMeterProvider(WorkingMeter))
    /\ now = 1
    /\ entry \in HostEntries(now)
    /\ op = "NewEntry"
    /\ ret = Nil
    /\ emissions = <<>>
    /\ invocations = <<>>
    /\ NoTally
    /\ NoConcurrency

-----------------------------------------------------------------------------
(* Operations *)

\* time.Now(): the clock is monotonic, a reading is never before the last one.
Now == now..MaxTime

\* The host drops the entry it holds and builds the next one.
NewEntry ==
    /\ entry' \in HostEntries(now)
    /\ op' = "NewEntry"
    /\ ret' = Nil
    /\ emissions' = <<>>
    /\ invocations' = <<>>
    /\ UNCHANGED <<construction, tallies, concurrency, variant, ctx, enabledEventTypes, callback, now>>

\* l.SetEventTypes(eventTypes)
CallSetEventTypesWith(eventTypes) ==
        /\ logger # Nil
        /\ enabledEventTypes' = IF variant = Meter
                                THEN SetEventTypes(eventTypes)
                                ELSE SetEventTypes_provider(eventTypes)
        /\ op' = "SetEventTypes"
        /\ ret' = Nil
        /\ emissions' = <<>>
        /\ invocations' = <<>>
        /\ UNCHANGED <<construction, tallies, concurrency, variant, ctx, callback, now, entry>>

CallSetEventTypes == \E eventTypes \in EventTypeSlices : CallSetEventTypesWith(eventTypes)

\* l.SetLogCallback(cb)
CallSetLogCallbackWith(cb) ==
        /\ logger # Nil
        /\ callback' = IF variant = Meter
                       THEN SetLogCallback(cb)
                       ELSE SetLogCallback_provider(cb)
        /\ op' = "SetLogCallback"
        /\ ret' = Nil
        /\ emissions' = <<>>
        /\ invocations' = <<>>
        /\ UNCHANGED <<construction, tallies, concurrency, variant, ctx, enabledEventTypes, now, entry>>

CallSetLogCallback == \E cb \in Callbacks \cup {Nil} : CallSetLogCallbackWith(cb)

\* OnBeforeEvent counting the evaluation as it starts.
CallOnBeforeEvent_CountsStart ==
    \E t \in Now :
    LET r == IF variant = Meter
             THEN OnBeforeEvent(enabledEventTypes, entry, t)
             ELSE OnBeforeEvent_provider(enabledEventTypes, entry, t)
    IN  /\ logger # Nil
        /\ now' = t
        /\ entry' = r.entry
        /\ ret' = r.ret
        /\ op' = "OnBeforeEvent"
        /\ emissions' = IF entry.EventType = EventEnforce
                        THEN <<Call(enforceTotal, Background, 1, <<>>)>>
                        ELSE <<>>
        /\ invocations' = <<>>
        /\ UNCHANGED <<construction, tallies, concurrency, variant, ctx, enabledEventTypes, callback>>

\* l.OnBeforeEvent(entry)
CallOnBeforeEvent ==
    \E t \in Now :
    LET r == IF variant = Meter
             THEN OnBeforeEvent(enabledEventTypes, entry, t)
             ELSE OnBeforeEvent_provider(enabledEventTypes, entry, t)
    IN  /\ logger # Nil
        /\ now' = t
        /\ entry' = r.entry
        /\ ret' = r.ret
        /\ op' = "OnBeforeEvent"
        /\ emissions' = <<>>
        /\ invocations' = <<>>
        /\ UNCHANGED <<construction, tallies, concurrency, variant, ctx, enabledEventTypes, callback>>

CallOnAfterEvent ==
    \E t \in Now :
    LET r == IF variant = Meter
             THEN OnAfterEvent(callback, ctx, entry, t)
             ELSE OnAfterEvent_provider(callback, entry, t)
    IN  /\ logger # Nil
        /\ now' = t
        /\ entry' = r.entry
        /\ ret' = r.ret
        /\ emissions' = r.emissions
        /\ invocations' = r.invocations
        /\ op' = "OnAfterEvent"
        /\ UNCHANGED <<construction, tallies, concurrency, variant, ctx, enabledEventTypes, callback>>

Next ==
    \/ NewEntry
    \/ CallSetEventTypes
    \/ CallSetLogCallback
    \/ CallOnBeforeEvent
    \/ CallOnAfterEvent

Spec == Init /\ [][Next]_vars

-----------------------------------------------------------------------------
(* The host constructing loggers: on any meter, and again after it has      *)
(* configured the logger it holds                                            *)

\* The host has no logger yet.
InitConstruct ==
    /\ variant \in {Meter, Provider}
    /\ meter = WorkingMeter
    /\ logger = Nil
    /\ err = Nil
    /\ panic = Nil
    /\ instruments = NoLogger.instruments
    /\ ctx = NoLogger.ctx
    /\ enabledEventTypes = NoLogger.enabledEventTypes
    /\ callback = NoLogger.callback
    /\ now = 1
    /\ entry = LogEntry(EventEnforce)
    /\ op = "NewEntry"
    /\ ret = Nil
    /\ emissions = <<>>
    /\ invocations = <<>>
    /\ NoTally
    /\ NoConcurrency

\* The host's variables take what the constructor call r on meter m gave.
Construct(name, m, r) ==
    LET l == IF r.logger = NilLogger THEN NoLogger ELSE r.logger[1]
    IN  /\ meter' = m
        /\ logger' = IF r.logger = NilLogger THEN Nil ELSE "logger"
        /\ err' = r.err
        /\ panic' = r.panic
        /\ instruments' = l.instruments
        /\ ctx' = l.ctx
        /\ enabledEventTypes' = l.enabledEventTypes
        /\ callback' = l.callback
        /\ op' = name
        /\ ret' = Nil
        /\ emissions' = <<>>
        /\ invocations' = <<>>
        /\ UNCHANGED <<variant, now, entry, tallies, concurrency>>

CallNewOpenTelemetryLogger ==
    /\ variant = Meter
    /\ \E m \in Meters :
        Construct("NewOpenTelemetryLogger", m, NewOpenTelemetryLogger(m))

CallNewOpenTelemetryLoggerWithContext ==
    /\ variant = Meter
    /\ \E c \in {Background, RequestContext}, m \in Meters :
        Construct("NewOpenTelemetryLoggerWithContext", m,
                  NewOpenTelemetryLoggerWithContext(c, m))

CallNewOpenTelemetryLogger_provider ==
    /\ variant = Provider
    /\ \E m \in Meters :
        Construct("NewOpenTelemetryLogger", m, NewOpenTelemetryLogger_provider(m))

CallNewOpenTelemetryLoggerWithMeterProvider ==
    /\ variant = Provider
    /\ \E m \in Meters :
        Construct("NewOpenTelemetryLoggerWithMeterProvider", m,
                  NewOpenTelemetryLoggerWithMeterProvider(m))

NextConstruct ==
    \/ CallNewOpenTelemetryLogger
    \/ CallNewOpenTelemetryLoggerWithContext
    \/ CallNewOpenTelemetryLogger_provider
    \/ CallNewOpenTelemetryLoggerWithMeterProvider
    \/ CallSetEventTypes
    \/ CallSetLogCallback

SpecConstruct == InitConstruct /\ [][NextConstruct]_vars

-----------------------------------------------------------------------------
(* The well-formed host: every record goes through OnBeforeEvent once and   *)
(* then through OnAfterEvent once; the host reconfigures the logger at any  *)
(* point between the calls.  The backend's readings are kept over the run.  *)

\* The records the host makes in a run.
MaxRecords == 2

\* The records as the host builds them: not active, no times; of every kind,
\* allowed or not, of every rule_count.
HostRecords ==
    {e \in HostEntries(1) : ~e.IsActive /\ e.Domain = "" /\ e.Error = Nil}

\* The counters; the other instruments are the histograms and the gauge.
Counters == {enforceTotal, policyOpsTotal}

\* The readings after the calls of em from the i-th on: a counter's total
\* grows by the value added, a histogram's and a gauge's number of
\* recordings by one.
RECURSIVE Accumulate(_, _, _)
Accumulate(read, em, i) ==
    IF i > Len(em) THEN read
    ELSE Accumulate([read EXCEPT ![em[i].instrument] =
                        @ + (IF em[i].instrument \in Counters THEN em[i].value ELSE 1)],
                    em, i + 1)

InitHost ==
    /\ \/ /\ variant = Meter
          /\ Holds(WorkingMeter,
                   NewOpenTelemetryLoggerWithContext(RequestContext, WorkingMeter))
       \/ /\ variant = Provider
          /\ Holds(WorkingMeter, NewOpenTelemetryLoggerWithMeterProvider(WorkingMeter))
    /\ now = 1
    /\ entry \in HostRecords
    /\ op = "NewEntry"
    /\ ret = Nil
    /\ emissions = <<>>
    /\ invocations = <<>>
    /\ totals = ZeroTotals
    /\ host = [phase |-> "new", records |-> 1, admitted |-> FALSE,
               enforced |-> 0, mutated |-> 0, gauged |-> 0]
    /\ NoConcurrency

\* The operation is over; the host builds the record of the next one.
HostNewEntry ==
    /\ host.phase = "after"
    /\ host.records < MaxRecords
    /\ entry' \in HostRecords
    /\ host' = [host EXCEPT !.phase = "new", !.records = @ + 1, !.admitted = FALSE]
    /\ op' = "NewEntry"
    /\ ret' = Nil
    /\ emissions' = <<>>
    /\ invocations' = <<>>
    /\ UNCHANGED <<construction, concurrency, variant, ctx, enabledEventTypes,
                   callback, now, totals>>

\* l.OnBeforeEvent(entry), once, before the operation; the host notes whether
\* the map of enabled kinds in force is empty or holds the record's kind.
HostOnBeforeEvent ==
    \E t \in Now :
    LET r == IF variant = Meter
             THEN OnBeforeEvent(enabledEventTypes, entry, t)
             ELSE OnBeforeEvent_provider(enabledEventTypes, entry, t)
    IN  /\ host.phase = "new"
        /\ now' = t
        /\ entry' = r.entry
        /\ ret' = r.ret
        /\ op' = "OnBeforeEvent"
        /\ emissions' = <<>>
        /\ invocations' = <<>>
        /\ host' = [host EXCEPT
                        !.phase = "before",
                        !.admitted = \/ DOMAIN enabledEventTypes = {}
                                     \/ /\ entry.EventType \in DOMAIN enabledEventTypes
                                        /\ enabledEventTypes[entry.EventType]]
        /\ UNCHANGED <<construction, concurrency, variant, ctx, enabledEventTypes,
                       callback, totals>>

\* l.OnAfterEvent(entry), once, after the operation; the backend takes the
\* instrument calls and the host counts the record it completed.
HostOnAfterEvent ==
    \E t \in Now :
    LET r == IF variant = Meter
             THEN OnAfterEvent(callback, ctx, entry, t)
             ELSE OnAfterEvent_provider(callback, entry, t)
        evaluation == entry.IsActive /\ entry.EventType = EventEnforce
        mutation == entry.IsActive /\ entry.EventType \in PolicyEventTypes
    IN  /\ host.phase = "before"
        /\ now' = t
        /\ entry' = r.entry
        /\ ret' = r.ret
        /\ emissions' = r.emissions
        /\ invocations' = r.invocations
        /\ op' = "OnAfterEvent"
        /\ totals' = Accumulate(totals, r.emissions, 1)
        /\ host' = [host EXCEPT
                        !.phase = "after",
                        !.enforced = IF evaluation THEN @ + 1 ELSE @,
                        !.mutated = IF mutation THEN @ + 1 ELSE @,
                        !.gauged = IF mutation /\ entry.RuleCount > 0 THEN @ + 1 ELSE @]
        /\ UNCHANGED <<construction, concurrency, variant, ctx, enabledEventTypes,
                       callback>>

NextHost ==
    \/ HostNewEntry
    \/ HostOnBeforeEvent
    \/ HostOnAfterEvent
    \/ CallSetEventTypes
    \/ CallSetLogCallback

SpecHost == InitHost /\ [][NextHost]_vars

-----------------------------------------------------------------------------
(* Hook calls in flight at once.  A goroutine runs OnBeforeEvent and then   *)
(* OnAfterEvent on a record of its own, statement by statement; between two *)
(* of its statements the other goroutines take theirs.  No method of the    *)
(* logger takes a lock.                                                      *)

\* The goroutines of the host that run operations at the same time.
Goroutines == {"first", "second"}

\* The records they work on.
InFlightRecords ==
    {e \in HostRecords :
        \/ e.EventType = EventEnforce /\ e.Allowed
        \/ e.EventType = EventAddPolicy /\ e.RuleCount = 5
        \/ e.EventType = EventRemovePolicy /\ e.RuleCount = 0}

\* A goroutine about to call OnBeforeEvent on the record e: its place in the
\* hooks, the record as the host built it and as it is now, the callback it
\* loaded, the clock readings it took, the instrument calls and the callback
\* calls it made and what its last hook returned.
Goroutine(e) ==
    [pc |-> "len", first |-> e, entry |-> e, cb |-> Nil, tB |-> ZeroTime,
     tA |-> ZeroTime, emissions |-> <<>>, invoked |-> <<>>, ret |-> Nil]

\* Every hook working on one record kept by the logger.
Write_OneRecord(gs, g, r) ==
    [h \in DOMAIN gs |-> IF h = g THEN r ELSE [gs[h] EXCEPT !.entry = r.entry]]

\* entry is the goroutine's own *LogEntry: what a statement of goroutine g
\* writes, it writes to the record of g.
Write(gs, g, r) == [gs EXCEPT ![g] = r]

\* OnBeforeEvent: len(l.enabledEventTypes) > 0
TestLen(r, enabled) ==
    [r EXCEPT !.pc = IF MapLen(enabled) > 0 THEN "index" ELSE "activate"]

\* OnBeforeEvent: !l.enabledEventTypes[entry.EventType]
TestIndex(r, enabled) ==
    [r EXCEPT !.pc = IF ~MapGet(enabled, r.entry.EventType)
                     THEN "deactivate" ELSE "activate"]

\* OnBeforeEvent: entry.IsActive = false; return nil
Deactivate(r) == [r EXCEPT !.entry.IsActive = FALSE, !.ret = Nil, !.pc = "active"]

\* OnBeforeEvent: entry.IsActive = true
Activate(r) == [r EXCEPT !.entry.IsActive = TRUE, !.pc = "stamp"]

\* OnBeforeEvent: entry.StartTime = time.Now(); return nil
Stamp(r, t) ==
    [r EXCEPT !.entry.StartTime = t, !.tB = t, !.ret = Nil, !.pc = "active"]

\* OnAfterEvent: if !entry.IsActive { return nil }
TestActive(r) ==
    [r EXCEPT !.ret = Nil, !.pc = IF ~r.entry.IsActive THEN "done" ELSE "end"]

\* OnAfterEvent: entry.EndTime = time.Now(); entry.Duration = ...
End(r, t) ==
    [r EXCEPT !.entry.EndTime = t, !.entry.Duration = Sub(t, r.entry.StartTime),
              !.tA = t, !.pc = "record"]

\* OnAfterEvent: the switch on entry.EventType
Record(r, c) ==
    [r EXCEPT !.emissions = IF variant = Meter
                            THEN recordMetrics(c, r.entry)
                            ELSE recordMetrics_provider(r.entry),
              !.pc = "callback"]

\* OnAfterEvent: if l.callback != nil, on the value cb loaded from l.callback
TestCallback(r, cb) ==
    [r EXCEPT !.cb = cb, !.ret = Nil, !.pc = IF cb # Nil THEN "call" ELSE "done"]

\* OnAfterEvent: return l.callback(entry), on the value loaded for the call;
\* calling a nil func value panics.
CallCallback(r, callee) ==
    IF callee = Nil
    THEN [r EXCEPT !.invoked = <<Nil>>, !.pc = "panicked"]
    ELSE [r EXCEPT !.invoked = <<callee>>, !.ret = CallbackReturn(callee, r.entry),
                   !.pc = "done"]

\* The frame of a statement of a hook.
HookFrame ==
    UNCHANGED <<construction, tallies, variant, ctx, enabledEventTypes, callback,
                entry, op, ret, emissions, invocations, configurator>>

\* OnBeforeEvent taking a lock that SetEventTypes holds from make to return.
GoTestLen_WaitsForSetEventTypes ==
    \E g \in DOMAIN goroutines :
        /\ goroutines[g].pc = "len"
        /\ configurator.pc # "range"
        /\ goroutines' = Write(goroutines, g, TestLen(goroutines[g], enabledEventTypes))
        /\ UNCHANGED now
        /\ HookFrame

GoTestLen ==
    \E g \in DOMAIN goroutines :
        /\ goroutines[g].pc = "len"
        /\ goroutines' = Write(goroutines, g, TestLen(goroutines[g], enabledEventTypes))
        /\ UNCHANGED now
        /\ HookFrame

GoTestIndex ==
    \E g \in DOMAIN goroutines :
        /\ goroutines[g].pc = "index"
        /\ goroutines' = Write(goroutines, g, TestIndex(goroutines[g], enabledEventTypes))
        /\ UNCHANGED now
        /\ HookFrame

GoDeactivate ==
    \E g \in DOMAIN goroutines :
        /\ goroutines[g].pc = "deactivate"
        /\ goroutines' = Write(goroutines, g, Deactivate(goroutines[g]))
        /\ UNCHANGED now
        /\ HookFrame

GoActivate ==
    \E g \in DOMAIN goroutines :
        /\ goroutines[g].pc = "activate"
        /\ goroutines' = Write(goroutines, g, Activate(goroutines[g]))
        /\ UNCHANGED now
        /\ HookFrame

GoStamp ==
    \E g \in DOMAIN goroutines :
        /\ goroutines[g].pc = "stamp"
        /\ \E t \in Now :
            /\ now' = t
            /\ goroutines' = Write(goroutines, g, Stamp(goroutines[g], t))
        /\ HookFrame

GoTestActive ==
    \E g \in DOMAIN goroutines :
        /\ goroutines[g].pc = "active"
        /\ goroutines' = Write(goroutines, g, TestActive(goroutines[g]))
        /\ UNCHANGED now
        /\ HookFrame

GoEnd ==
    \E g \in DOMAIN goroutines :
        /\ goroutines[g].pc = "end"
        /\ \E t \in Now :
            /\ now' = t
            /\ goroutines' = Write(goroutines, g, End(goroutines[g], t))
        /\ HookFrame

GoRecord ==
    \E g \in DOMAIN goroutines :
        /\ goroutines[g].pc = "record"
        /\ goroutines' = Write(goroutines, g, Record(goroutines[g], ctx))
        /\ UNCHANGED now
        /\ HookFrame

GoTestCallback ==
    \E g \in DOMAIN goroutines :
        /\ goroutines[g].pc = "callback"
        /\ goroutines' = Write(goroutines, g, TestCallback(goroutines[g], callback))
        /\ UNCHANGED now
        /\ HookFrame

\* The call loads l.callback once more, or goes by the value the test loaded:
\* the two reads are not ordered with a write of another goroutine.
GoCallCallback ==
    \E g \in DOMAIN goroutines :
        /\ goroutines[g].pc = "call"
        /\ \E callee \in {goroutines[g].cb, callback} :
            goroutines' = Write(goroutines, g, CallCallback(goroutines[g], callee))
        /\ UNCHANGED now
        /\ HookFrame

\* A statement of the hooks of some goroutine.
HookStep ==
    \/ GoTestLen
    \/ GoTestIndex
    \/ GoDeactivate
    \/ GoActivate
    \/ GoStamp
    \/ GoTestActive
    \/ GoEnd
    \/ GoRecord
    \/ GoTestCallback
    \/ GoCallCallback

\* The host configures its logger before it starts the goroutines.
Configure ==
    /\ goroutines = <<>>
    /\ \/ CallSetEventTypes
       \/ CallSetLogCallback

\* go func() { ... }(): each goroutine gets a record of its own.
Go ==
    /\ logger # Nil
    /\ goroutines = <<>>
    /\ goroutines' \in [Goroutines -> {Goroutine(e) : e \in InFlightRecords}]
    /\ op' = "go"
    /\ ret' = Nil
    /\ emissions' = <<>>
    /\ invocations' = <<>>
    /\ UNCHANGED <<construction, tallies, variant, ctx, enabledEventTypes, callback,
                   now, entry, configurator>>

\* The logger is constructed, no goroutine runs yet.
InitConcurrent ==
    /\ \/ /\ variant = Meter
          /\ Holds(WorkingMeter,
                   NewOpenTelemetryLoggerWithContext(RequestContext, WorkingMeter))
       \/ /\ variant = Provider
          /\ Holds(WorkingMeter, NewOpenTelemetryLoggerWithMeterProvider(WorkingMeter))
    /\ now = 1
    /\ entry = LogEntry(EventEnforce)
    /\ op = "NewEntry"
    /\ ret = Nil
    /\ emissions = <<>>
    /\ invocations = <<>>
    /\ NoTally
    /\ NoConcurrency

NextConcurrent ==
    \/ Configure
    \/ Go
    \/ HookStep

\* The hook goroutines alone: nothing reconfigures the logger meanwhile.
SpecConcurrent ==
    /\ InitConcurrent
    /\ [][NextConcurrent]_vars

-----------------------------------------------------------------------------
(* Reconfiguration while a hook runs.  One goroutine runs the hooks on its  *)
(* record; another calls SetEventTypes or SetLogCallback on the same logger *)
(* once, statement by statement.  Neither takes a lock, so the reads of the *)
(* hooks see whatever the writes of the other goroutine have left so far.   *)

\* The goroutine that runs the hooks.
HookGoroutine == {"first"}

\* The hook goroutine starts on a record; the other goroutine is about to
\* reconfigure the logger and remembers the configuration it finds.
GoRace ==
    /\ logger # Nil
    /\ goroutines = <<>>
    /\ goroutines' \in [HookGoroutine -> {Goroutine(e) : e \in InFlightRecords}]
    /\ configurator' = [pc |-> "idle", call |-> "none", eventTypes |-> <<>>, i |-> 1,
                        oldEventTypes |-> enabledEventTypes,
                        oldCallback |-> callback, newCallback |-> callback]
    /\ op' = "go"
    /\ ret' = Nil
    /\ emissions' = <<>>
    /\ invocations' = <<>>
    /\ UNCHANGED <<construction, tallies, variant, ctx, enabledEventTypes, callback,
                   now, entry>>

\* The frame of a statement of SetEventTypes.
SetterFrame ==
    UNCHANGED <<construction, tallies, variant, ctx, now, entry, op, ret, emissions,
                invocations, goroutines>>

\* SetEventTypes: l.enabledEventTypes = make(map[EventType]bool)
RaceMake ==
    /\ configurator.pc = "idle"
    /\ \E eventTypes \in EventTypeSlices :
        configurator' = [configurator EXCEPT !.pc = "range", !.call = "SetEventTypes",
                                             !.eventTypes = eventTypes]
    /\ enabledEventTypes' = MakeMap
    /\ UNCHANGED callback
    /\ SetterFrame

\* SetEventTypes: l.enabledEventTypes[eventType] = true, for the next element
RaceRange ==
    /\ configurator.pc = "range"
    /\ configurator.i <= Len(configurator.eventTypes)
    /\ enabledEventTypes' =
            MapSet(enabledEventTypes, configurator.eventTypes[configurator.i], TRUE)
    /\ configurator' = [configurator EXCEPT !.i = @ + 1]
    /\ UNCHANGED callback
    /\ SetterFrame

\* SetEventTypes: return nil
RaceReturn ==
    /\ configurator.pc = "range"
    /\ configurator.i > Len(configurator.eventTypes)
    /\ configurator' = [configurator EXCEPT !.pc = "done"]
    /\ UNCHANGED <<enabledEventTypes, callback>>
    /\ SetterFrame

\* SetLogCallback: l.callback = callback; return nil
RaceSetLogCallback ==
    /\ configurator.pc = "idle"
    /\ \E cb \in Callbacks \cup {Nil} :
        /\ callback' = IF variant = Meter
                       THEN SetLogCallback(cb) ELSE SetLogCallback_provider(cb)
        /\ configurator' = [configurator EXCEPT !.pc = "done", !.call = "SetLogCallback",
                                                !.newCallback = cb]
    /\ UNCHANGED enabledEventTypes
    /\ SetterFrame

NextRace ==
    \/ Configure
    \/ GoRace
    \/ HookStep
    \/ RaceMake
    \/ RaceRange
    \/ RaceReturn
    \/ RaceSetLogCallback

\* The hooks of one operation and one reconfiguration at the same time.
SpecRace ==
    /\ InitConcurrent
    /\ [][NextRace]_vars

-----------------------------------------------------------------------------
(* Progress.  Two goroutines run the hooks on their records while a third   *)
(* reconfigures the logger once.  The Go scheduler is preemptive: a         *)
(* goroutine that can take its next statement takes it in the end.          *)

\* The records of the goroutines: an evaluation and a policy operation.
LiveRecords == {e \in InFlightRecords : e.EventType \in {EventEnforce, EventAddPolicy}}

\* The goroutines start on their records; another is about to reconfigure.
GoLive ==
    /\ logger # Nil
    /\ goroutines = <<>>
    /\ goroutines' \in [Goroutines -> {Goroutine(e) : e \in LiveRecords}]
    /\ configurator' = [pc |-> "idle", call |-> "none", eventTypes |-> <<>>, i |-> 1,
                        oldEventTypes |-> enabledEventTypes,
                        oldCallback |-> callback, newCallback |-> callback]
    /\ op' = "go"
    /\ ret' = Nil
    /\ emissions' = <<>>
    /\ invocations' = <<>>
    /\ UNCHANGED <<construction, tallies, variant, ctx, enabledEventTypes, callback,
                   now, entry>>

\* The next statement of the hooks of goroutine g.
StepOf(g) == HookStep /\ goroutines'[g] # goroutines[g]

\* The next statement of the SetEventTypes call under way.
SetterStep == RaceRange \/ RaceReturn

NextLive ==
    \/ GoLive
    \/ HookStep
    \/ RaceMake
    \/ RaceRange
    \/ RaceReturn
    \/ RaceSetLogCallback

\* Every goroutine that can take a statement takes one in the end.
SpecLive ==
    /\ InitConcurrent
    /\ [][NextLive]_vars
    /\ \A g \in Goroutines : WF_vars(StepOf(g))
    /\ WF_vars(SetterStep)


-----------------------------------------------------------------------------
(* Vocabulary of the properties *)

\* The Enabled-Event Set: the kinds the map holds as true.
EnabledSet == {k \in DOMAIN enabledEventTypes : enabledEventTypes[k]}

\* The calls the last operation made on one instrument.
CallsTo(instrument) == SelectSeq(emissions, LAMBDA c : c.instrument = instrument)

\* The instruments the last operation touched.
Touched == {emissions[i].instrument : i \in DOMAIN emissions}

\* The values an attribute set gives a key.
AttrValues(attrs, key) == {a[2] : a \in {x \in attrs : x[1] = key}}

\* The keys of an attribute set.
AttrKeys(attrs) == {a[1] : a \in attrs}

\* The nanoseconds a recorded number of seconds stands for.
Nanoseconds(v) == v.sec * 1000000000 + v.nsec

BoolString(b) == IF b THEN "true" ELSE "false"

-----------------------------------------------------------------------------
(* The Event Gate *)

\* C1: with a non-empty Enabled-Event Set S and a record of a kind not in S,
\* OnBeforeEvent leaves is_active false, leaves start_time as it was and
\* returns no error.
C1_FilteredIsInactive ==
    [][(/\ op' = "OnBeforeEvent"
        /\ EnabledSet # {}
        /\ entry.EventType \notin EnabledSet)
       => (/\ entry'.IsActive = FALSE
           /\ entry'.StartTime = entry.StartTime
           /\ ret' = Nil)]_vars

\* A filtered record that came to the gate with a start time of the host's,
\* and still has it.
C1_Witness ==
    /\ op = "OnBeforeEvent"
    /\ EnabledSet = {EventEnforce}
    /\ entry.EventType = EventAddPolicy
    /\ ~entry.IsActive
    /\ entry.StartTime = 1
    /\ now = 2
    /\ ret = Nil

\* C2: with an empty Enabled-Event Set, OnBeforeEvent makes the record of any
\* kind active and stamps start_time with the clock's reading.
C2_EmptySetEnablesAll ==
    (op = "OnBeforeEvent" /\ EnabledSet = {})
        => (entry.IsActive /\ entry.StartTime = now /\ ret = Nil)

\* A record of a kind no metric is kept for, activated under the empty set.
C2_Witness ==
    /\ op = "OnBeforeEvent"
    /\ DOMAIN enabledEventTypes = {}
    /\ variant = Provider
    /\ entry.EventType = EventOther
    /\ entry.IsActive
    /\ entry.StartTime = now

\* C3: with a non-empty Enabled-Event Set S and a record of a kind in S,
\* OnBeforeEvent makes the record active, stamps start_time with the clock's
\* reading and returns no error.
C3_EnabledIsActive ==
    (op = "OnBeforeEvent" /\ EnabledSet # {} /\ entry.EventType \in EnabledSet)
        => (entry.IsActive /\ entry.StartTime = now /\ ret = Nil)

\* A record let through by a set of two kinds, stamped at the second tick.
C3_Witness ==
    /\ op = "OnBeforeEvent"
    /\ EnabledSet = {EventEnforce, EventRemovePolicy}
    /\ entry.EventType = EventRemovePolicy
    /\ entry.IsActive
    /\ entry.StartTime = 2
    /\ ret = Nil

-----------------------------------------------------------------------------
(* The Metric Recorder: the inactive path *)

\* C4: OnAfterEvent on a record whose is_active is false returns success and
\* does nothing else: no instrument is touched, the callback is not invoked,
\* the record (end_time and duration with it) and the logger stay as they were.
C4_InactiveAfterIsNoOp ==
    [][(op' = "OnAfterEvent" /\ ~entry.IsActive)
       => (/\ ret' = Nil
           /\ emissions' = <<>>
           /\ invocations' = <<>>
           /\ entry' = entry
           /\ enabledEventTypes' = enabledEventTypes
           /\ callback' = callback)]_vars

\* An inactive record the gate never saw, completed while a failing callback
\* is registered and no filter is set.
C4_Witness ==
    /\ op = "OnAfterEvent"
    /\ ~entry.IsActive
    /\ entry.EventType = EventEnforce
    /\ entry.StartTime = ZeroTime
    /\ entry.EndTime = ZeroTime
    /\ EnabledSet = {}
    /\ callback = cbErr
    /\ ret = Nil
    /\ emissions = <<>>
    /\ invocations = <<>>

\* C5: while the Enabled-Event Set S is non-empty and stays as it is, a record
\* of a kind not in S is inactive after OnBeforeEvent and after the
\* OnAfterEvent that follows, which touches no instrument and invokes no
\* callback; a record of a known kind in S that goes through the same two
\* hooks is recorded, and handed to the callback if there is one.
C5_FilteredRecordLeavesNoTrace ==
    [][/\ (op' = "OnBeforeEvent" /\ EnabledSet # {} /\ entry.EventType \notin EnabledSet)
            => ~entry'.IsActive
       /\ (/\ op = "OnBeforeEvent" /\ op' = "OnAfterEvent"
           /\ EnabledSet # {} /\ entry.EventType \notin EnabledSet)
            => (/\ ~entry'.IsActive
                /\ emissions' = <<>>
                /\ invocations' = <<>>
                /\ ret' = Nil)
       /\ (/\ op = "OnBeforeEvent" /\ op' = "OnAfterEvent"
           /\ EnabledSet # {} /\ entry.EventType \in EnabledSet
           /\ entry.EventType \in KnownEventTypes)
            => (/\ entry'.IsActive
                /\ emissions' # <<>>
                /\ (callback # Nil => Len(invocations') = 1))]_vars

\* The spec's scenario, completed: Enabled-Event Set {Evaluate}, a record of
\* kind AddRules with rule_count 5 after both hooks, a callback registered.
C5_Witness ==
    /\ op = "OnAfterEvent"
    /\ EnabledSet = {EventEnforce}
    /\ entry.EventType = EventAddPolicy
    /\ entry.RuleCount = 5
    /\ ~entry.IsActive
    /\ entry.StartTime = ZeroTime
    /\ callback = cbNil
    /\ emissions = <<>>
    /\ invocations = <<>>

-----------------------------------------------------------------------------
(* The Metric Recorder: timing *)

\* C6: for an active record OnAfterEvent sets end_time to the clock's reading
\* and duration to end_time - start_time, which is not negative, whether
\* start_time is the gate's or a past time the host wrote.
C6_DurationIsElapsedTime ==
    (op = "OnAfterEvent" /\ entry.IsActive)
        => (/\ entry.EndTime = now
            /\ entry.Duration = entry.EndTime - entry.StartTime
            /\ entry.Duration >= 0)

\* An active record completed one tick after its start.
C6_Witness ==
    /\ op = "OnAfterEvent"
    /\ entry.IsActive
    /\ entry.StartTime = 1
    /\ entry.EndTime = 2
    /\ entry.Duration = 1

-----------------------------------------------------------------------------
(* The Metric Recorder: evaluation metrics *)

\* C7: OnAfterEvent on an active Evaluate record makes exactly one call on the
\* evaluation-duration histogram, with the record's duration, and exactly one
\* on the evaluation counter, adding 1; both carry the same attribute set, of
\* the keys allowed and domain, allowed being the record's outcome as "true"
\* or "false"; no mutation instrument is touched.
C7_EnforceEmitsDurationAndCount ==
    (op = "OnAfterEvent" /\ entry.IsActive /\ entry.EventType = EventEnforce)
        => LET h == CallsTo(enforceDuration)
               n == CallsTo(enforceTotal)
           IN  /\ Len(h) = 1
               /\ Len(n) = 1
               /\ Len(emissions) = 2
               /\ Nanoseconds(h[1].value) = entry.Duration
               /\ n[1].value = 1
               /\ h[1].attrs = n[1].attrs
               /\ AttrKeys(h[1].attrs) = {"allowed", "domain"}
               /\ AttrValues(h[1].attrs, "allowed") = {BoolString(entry.Allowed)}
               /\ Cardinality(h[1].attrs) = 2
               /\ Touched \cap {policyOpsTotal, policyOpsDuration, policyRulesCount} = {}

\* The spec's scenario: an allowed evaluation in domain1 that took one tick.
C7_Witness ==
    /\ op = "OnAfterEvent"
    /\ entry.IsActive
    /\ entry.EventType = EventEnforce
    /\ entry.Allowed
    /\ entry.Domain = "domain1"
    /\ entry.Duration = 1
    /\ Len(emissions) = 2
    /\ emissions[1].attrs = {<<"allowed", "true">>, <<"domain", "domain1">>}
    /\ emissions[2].attrs = {<<"allowed", "true">>, <<"domain", "domain1">>}

\* C8: for an active Evaluate record the evaluation metrics carry the domain
\* attribute "default" when the record's domain is the empty string and the
\* record's domain otherwise; the record's domain field stays as it was.
C8_DomainDefaulting ==
    [][(op' = "OnAfterEvent" /\ entry.IsActive /\ entry.EventType = EventEnforce)
       => (/\ emissions' # <<>>
           /\ \A i \in DOMAIN emissions' :
                AttrValues(emissions'[i].attrs, "domain") =
                    {IF entry.Domain = "" THEN "default" ELSE entry.Domain}
           /\ entry'.Domain = entry.Domain)]_vars

\* An evaluation without a domain, recorded under "default".
C8_Witness ==
    /\ op = "OnAfterEvent"
    /\ entry.IsActive
    /\ entry.EventType = EventEnforce
    /\ entry.Domain = ""
    /\ Len(emissions) = 2
    /\ <<"domain", "default">> \in emissions[1].attrs
    /\ <<"domain", "default">> \in emissions[2].attrs

-----------------------------------------------------------------------------
(* The Metric Recorder: mutation metrics *)

\* C9: OnAfterEvent on an active record of kind AddPolicy, RemovePolicy,
\* LoadPolicy or SavePolicy makes exactly one call on the mutation counter,
\* adding 1, tagged with operation (the kind) and success, and exactly one on
\* the mutation-duration histogram, with the record's duration, tagged with
\* operation alone; no evaluation instrument is touched.
C9_PolicyEmitsCountAndDuration ==
    (op = "OnAfterEvent" /\ entry.IsActive /\ entry.EventType \in PolicyEventTypes)
        => LET n == CallsTo(policyOpsTotal)
               h == CallsTo(policyOpsDuration)
           IN  /\ Len(n) = 1
               /\ Len(h) = 1
               /\ n[1].value = 1
               /\ AttrKeys(n[1].attrs) = {"operation", "success"}
               /\ Cardinality(n[1].attrs) = 2
               /\ AttrValues(n[1].attrs, "operation") = {entry.EventType}
               /\ AttrValues(n[1].attrs, "success") \subseteq {"true", "false"}
               /\ Nanoseconds(h[1].value) = entry.Duration
               /\ h[1].attrs = {<<"operation", entry.EventType>>}
               /\ Touched \cap {enforceDuration, enforceTotal} = {}

\* A SavePolicy that took one tick.
C9_Witness ==
    /\ op = "OnAfterEvent"
    /\ entry.IsActive
    /\ entry.EventType = EventSavePolicy
    /\ entry.Duration = 1
    /\ Len(emissions) = 2
    /\ emissions[1].instrument = policyOpsTotal
    /\ emissions[2].instrument = policyOpsDuration
    /\ emissions[2].attrs = {<<"operation", EventSavePolicy>>}

\* C10: for an active mutation record the counter's success attribute is
\* "false" exactly when the record's error is set and "true" otherwise; with
\* the error set the counter and the duration are still recorded, the gauge
\* too when rule_count is positive, and OnAfterEvent returns the callback's
\* result, success when no callback is registered, never the record's error.
C10_ErrorOnlySetsSuccess ==
    (op = "OnAfterEvent" /\ entry.IsActive /\ entry.EventType \in PolicyEventTypes)
        => LET n == CallsTo(policyOpsTotal) IN
           /\ Len(n) = 1
           /\ AttrValues(n[1].attrs, "success") =
                {IF entry.Error # Nil THEN "false" ELSE "true"}
           /\ Len(CallsTo(policyOpsDuration)) = 1
           /\ entry.RuleCount > 0 => Len(CallsTo(policyRulesCount)) = 1
           /\ callback = Nil => ret = Nil
           /\ callback # Nil => ret = CallbackReturn(callback, entry)
           /\ ret \in {Nil, CallbackError}

\* The spec's scenario: a failed RemovePolicy of positive rule_count, counted
\* with success "false", its gauge recorded, no error returned.
C10_Witness ==
    /\ op = "OnAfterEvent"
    /\ entry.IsActive
    /\ entry.EventType = EventRemovePolicy
    /\ entry.Error # Nil
    /\ entry.RuleCount = 5
    /\ callback = Nil
    /\ ret = Nil
    /\ Len(emissions) = 3
    /\ emissions[1].attrs = {<<"operation", EventRemovePolicy>>, <<"success", "false">>}
    /\ emissions[3].instrument = policyRulesCount
    /\ emissions[3].value = 5

\* C11: for an active mutation record the rules-affected gauge is recorded
\* exactly when rule_count is positive, once, with rule_count as the value and
\* operation as the only attribute; with a zero or negative rule_count the
\* gauge is not touched, and the counter and the duration are recorded either
\* way.
C11_GaugeOnlyForPositiveCount ==
    (op = "OnAfterEvent" /\ entry.IsActive /\ entry.EventType \in PolicyEventTypes)
        => LET g == CallsTo(policyRulesCount) IN
           /\ (entry.RuleCount > 0) <=> (policyRulesCount \in Touched)
           /\ entry.RuleCount > 0 =>
                /\ Len(g) = 1
                /\ g[1].value = entry.RuleCount
                /\ g[1].attrs = {<<"operation", entry.EventType>>}
           /\ Len(CallsTo(policyOpsTotal)) = 1
           /\ Len(CallsTo(policyOpsDuration)) = 1

\* A LoadPolicy of negative rule_count: counter and duration, no gauge.
C11_Witness ==
    /\ op = "OnAfterEvent"
    /\ entry.IsActive
    /\ entry.EventType = EventLoadPolicy
    /\ entry.RuleCount = -1
    /\ Touched = {policyOpsTotal, policyOpsDuration}

-----------------------------------------------------------------------------
(* The Metric Recorder: the callback *)

\* The instrument calls an active record of a known kind must give rise to.
KindIsRecorded ==
    /\ entry.EventType = EventEnforce => Touched = {enforceDuration, enforceTotal}
    /\ entry.EventType \in PolicyEventTypes =>
            {policyOpsTotal, policyOpsDuration} \subseteq Touched

\* C12: with a callback that returns the failure e registered, OnAfterEvent on
\* an active record returns e itself; the record's metrics were all emitted
\* when the callback ran and are there after the failure.
C12_CallbackFailureIsReturned ==
    (op = "OnAfterEvent" /\ entry.IsActive /\ callback = cbErr)
        => (/\ ret = CallbackError
            /\ Len(invocations) = 1
            /\ invocations[1].emitted = Len(emissions)
            /\ KindIsRecorded)

\* A failing callback on an evaluation: the failure comes back, both metrics
\* are emitted.
C12_Witness ==
    /\ op = "OnAfterEvent"
    /\ entry.IsActive
    /\ entry.EventType = EventEnforce
    /\ callback = cbErr
    /\ ret = CallbackError
    /\ Len(emissions) = 2
    /\ invocations[1].emitted = 2

\* C13: with a callback registered, OnAfterEvent on an active record invokes
\* the registered callback exactly once, also when it fails, after all of the
\* call's instrument calls, and hands it the record as the call leaves it,
\* end_time and duration set; OnBeforeEvent invokes no callback, nor does
\* OnAfterEvent on an inactive record.
C13_CallbackOncePerActiveRecord ==
    /\ (op = "OnAfterEvent" /\ entry.IsActive /\ callback # Nil)
        => (/\ Len(invocations) = 1
            /\ invocations[1].callback = callback
            /\ invocations[1].emitted = Len(emissions)
            /\ invocations[1].entry = entry
            /\ invocations[1].entry.EndTime = now
            /\ invocations[1].entry.Duration = now - entry.StartTime)
    /\ op = "OnBeforeEvent" => invocations = <<>>
    /\ (op = "OnAfterEvent" /\ ~entry.IsActive) => invocations = <<>>

\* A policy operation that took a tick, handed once to a failing callback
\* after its three instrument calls.
C13_Witness ==
    /\ op = "OnAfterEvent"
    /\ entry.IsActive
    /\ entry.EventType = EventAddPolicy
    /\ entry.RuleCount = 5
    /\ callback = cbErr
    /\ Len(invocations) = 1
    /\ invocations[1].emitted = 3
    /\ invocations[1].entry.Duration = 1

\* C14: the only failure the logger returns is the callback's: OnBeforeEvent,
\* SetEventTypes and SetLogCallback return success in every state, and
\* OnAfterEvent returns success when the record is inactive or no callback is
\* registered, whatever the kind, the record's error and rule_count; what
\* OnAfterEvent returns otherwise is what the registered callback returned.
C14_OnlyTheCallbackFails ==
    /\ op \in {"OnBeforeEvent", "SetEventTypes", "SetLogCallback"} => ret = Nil
    /\ (op = "OnAfterEvent" /\ (~entry.IsActive \/ callback = Nil)) => ret = Nil
    /\ ret # Nil => (/\ op = "OnAfterEvent"
                     /\ entry.IsActive
                     /\ callback # Nil
                     /\ ret = CallbackReturn(callback, entry))

\* A failed policy operation completed with no callback: success.
C14_Witness ==
    /\ op = "OnAfterEvent"
    /\ entry.IsActive
    /\ entry.EventType = EventSavePolicy
    /\ entry.Error # Nil
    /\ entry.RuleCount = -1
    /\ callback = Nil
    /\ ret = Nil

\* C15: OnAfterEvent on an active record of a kind that is none of the five
\* touches no instrument, sets end_time and duration all the same, invokes the
\* registered callback and returns its result, success without a callback.
C15_UnknownKindIsNotRecorded ==
    (op = "OnAfterEvent" /\ entry.IsActive /\ entry.EventType \notin KnownEventTypes)
        => (/\ emissions = <<>>
            /\ entry.EndTime = now
            /\ entry.Duration = entry.EndTime - entry.StartTime
            /\ callback # Nil =>
                    /\ Len(invocations) = 1
                    /\ invocations[1].entry = entry
                    /\ ret = CallbackReturn(callback, entry)
            /\ callback = Nil => (invocations = <<>> /\ ret = Nil))

\* A record of an unknown kind, a tick long, handed to a failing callback.
C15_Witness ==
    /\ op = "OnAfterEvent"
    /\ entry.IsActive
    /\ entry.EventType = EventOther
    /\ entry.Duration = 1
    /\ emissions = <<>>
    /\ callback = cbErr
    /\ Len(invocations) = 1
    /\ ret = CallbackError

-----------------------------------------------------------------------------
(* Configuration *)

\* The kinds that occur in a slice.
KindsOf(eventTypes) == {eventTypes[i] : i \in DOMAIN eventTypes}

\* C16: SetEventTypes(seq) replaces the Enabled-Event Set: after the call the
\* set is exactly the set of the kinds that occur in seq, whatever their order
\* and repetitions, a kind enabled before and absent from seq is enabled no
\* more, the call returns success, and the callback and the instruments are
\* as they were.
C16_SetEventTypesReplaces ==
    /\ [](/\ \A eventTypes \in EventTypeSlices :
                LET m == IF variant = Meter
                         THEN SetEventTypes(eventTypes)
                         ELSE SetEventTypes_provider(eventTypes)
                IN  /\ {k \in DOMAIN m : m[k]} = KindsOf(eventTypes)
                    /\ DOMAIN m = KindsOf(eventTypes)
                    /\ \A k \in EnabledSet \ KindsOf(eventTypes) : ~MapGet(m, k)
          /\ op = "SetEventTypes" => ret = Nil)
    /\ [][op' = "SetEventTypes"
            => (/\ \E eventTypes \in EventTypeSlices :
                        EnabledSet' = KindsOf(eventTypes)
                /\ callback' = callback
                /\ instruments' = instruments)]_vars

\* The set holds one kind after a call, a callback being registered.
C16_Witness ==
    /\ op = "SetEventTypes"
    /\ EnabledSet = {EventRemovePolicy}
    /\ MapLen(enabledEventTypes) = 1
    /\ callback = cbNil
    /\ ret = Nil

\* C17: SetLogCallback(c) replaces the callback: c is the registered callback
\* from the call on until the next SetLogCallback, and an OnAfterEvent on an
\* active record invokes the registered callback and no other, whichever was
\* registered when the record went through OnBeforeEvent; with nil handed in no
\* callback is registered and OnAfterEvent returns success; the call returns
\* success and leaves the Enabled-Event Set as it was.
C17_SetLogCallbackReplaces ==
    [][/\ op' = "SetLogCallback" => \A cb \in Callbacks \cup {Nil} :
            CallSetLogCallbackWith(cb)
                => (/\ callback' = cb
                    /\ ret' = Nil
                    /\ invocations' = <<>>
                    /\ enabledEventTypes' = enabledEventTypes)
       /\ op' # "SetLogCallback" => callback' = callback
       /\ (op' = "OnAfterEvent" /\ entry'.IsActive)
            => (/\ \A i \in DOMAIN invocations' : invocations'[i].callback = callback
                /\ callback # Nil => Len(invocations') = 1
                /\ callback = Nil => (invocations' = <<>> /\ ret' = Nil))]_vars

\* A record stamped at 1 and completed at 2 is handed to the succeeding
\* callback, the one registered at the time.
C17_Witness ==
    /\ op = "OnAfterEvent"
    /\ entry.IsActive
    /\ entry.StartTime = 1
    /\ entry.EndTime = 2
    /\ callback = cbNil
    /\ Len(invocations) = 1
    /\ invocations[1].callback = cbNil
    /\ ret = Nil

-----------------------------------------------------------------------------
(* Construction *)

ConstructorNames ==
    {"NewOpenTelemetryLogger", "NewOpenTelemetryLoggerWithContext",
     "NewOpenTelemetryLoggerWithMeterProvider"}

\* The first name, in creation order, that the meter refuses.
FirstRefused ==
    CreationOrder[CHOOSE i \in DOMAIN CreationOrder :
                    /\ CreationOrder[i] \in meter
                    /\ \A j \in 1..(i - 1) : CreationOrder[j] \notin meter]

\* C18: construction is all or nothing.  When the meter refuses any of the
\* five instruments the constructor gives no logger: the meter variant returns
\* nil and the error of the first refusal, the provider variant panics with
\* it; no instrument field of a logger is to be seen.  When the meter creates
\* all five the constructor gives a logger, no error and no panic.
C18_ConstructionAllOrNothing ==
    op \in ConstructorNames
        => (/\ meter # WorkingMeter =>
                    /\ logger = Nil
                    /\ instruments = ZeroInstruments
                    /\ variant = Meter => (err = FirstRefused /\ panic = Nil)
                    /\ variant = Provider => (panic = FirstRefused /\ err = Nil)
            /\ meter = WorkingMeter =>
                    /\ logger # Nil
                    /\ err = Nil
                    /\ panic = Nil)

\* The meter refuses the last instrument only, the gauge, after four
\* registrations went through: nil and the error.
C18_Witness ==
    /\ op = "NewOpenTelemetryLoggerWithContext"
    /\ variant = Meter
    /\ meter = {policyRulesCount}
    /\ logger = Nil
    /\ err = policyRulesCount
    /\ instruments = ZeroInstruments

\* C19: the logger a constructor gives, whichever of the four, holds its five
\* instruments, none nil, an empty map of enabled kinds, under which
\* OnBeforeEvent lets every kind through, and no callback.
C19_FreshLogger ==
    (op \in ConstructorNames /\ logger # Nil)
        => (/\ \A name \in Instruments : instruments[name] = name
            /\ enabledEventTypes = MakeMap
            /\ MapLen(enabledEventTypes) = 0
            /\ \A k \in EventTypes :
                    IF variant = Meter
                    THEN OnBeforeEvent(enabledEventTypes, LogEntry(k), now).entry.IsActive
                    ELSE OnBeforeEvent_provider(enabledEventTypes, LogEntry(k), now).entry.IsActive
            /\ callback = Nil
            /\ variant = Meter => ctx \in {Background, RequestContext}
            /\ op = "NewOpenTelemetryLogger" /\ variant = Meter => ctx = Background)

\* The default-provider constructor of the provider variant gave a logger.
C19_Witness ==
    /\ op = "NewOpenTelemetryLogger"
    /\ variant = Provider
    /\ logger # Nil
    /\ instruments[policyRulesCount] = policyRulesCount
    /\ enabledEventTypes = MakeMap
    /\ callback = Nil

-----------------------------------------------------------------------------
(* The inactive path, repeated *)

\* n calls of OnAfterEvent in a row at time t, from r: the entry as they leave
\* it, all the instrument and callback calls made and the errors returned.
RECURSIVE OnAfterEventTimes(_, _, _)
OnAfterEventTimes(r, n, t) ==
    IF n = 0 THEN r
    ELSE LET s == IF variant = Meter
                  THEN OnAfterEvent(callback, ctx, r.entry, t)
                  ELSE OnAfterEvent_provider(callback, r.entry, t)
         IN  OnAfterEventTimes([entry |-> s.entry,
                                emissions |-> r.emissions \o s.emissions,
                                invocations |-> r.invocations \o s.invocations,
                                rets |-> Append(r.rets, s.ret)],
                               n - 1, t)

\* C20: with no callback registered, any number of calls of OnAfterEvent on an
\* inactive record, at any time, touch no instrument, leave the record as it
\* is and return success each time; a call that was made on such a record has
\* left nothing behind.
C20_InactivePathIdempotent ==
    (~entry.IsActive /\ callback = Nil)
        => (/\ \A n \in 0..MaxCalls, t \in Now :
                    OnAfterEventTimes([entry |-> entry, emissions |-> <<>>,
                                       invocations |-> <<>>, rets |-> <<>>], n, t)
                        = [entry |-> entry, emissions |-> <<>>, invocations |-> <<>>,
                           rets |-> [i \in 1..n |-> Nil]]
            /\ op = "OnAfterEvent" =>
                    (emissions = <<>> /\ invocations = <<>> /\ ret = Nil))

\* A policy record of a filtered kind, completed at 2 with no callback: the
\* gate left it inactive and OnAfterEvent left it unstamped.
C20_Witness ==
    /\ op = "OnAfterEvent"
    /\ ~entry.IsActive
    /\ entry.EventType = EventAddPolicy
    /\ entry.EndTime = ZeroTime
    /\ entry.Duration = 0
    /\ EnabledSet = {EventEnforce}
    /\ callback = Nil
    /\ now = 2
    /\ ret = Nil

-----------------------------------------------------------------------------
(* The stored context *)

Contexts == {Background, RequestContext}

\* C22: in the meter variant the context handed to
\* NewOpenTelemetryLoggerWithContext is the l.ctx of the logger it gives, and
\* NewOpenTelemetryLogger(meter) is that constructor on a background context;
\* the stored context is still the constructor's after any operations, and
\* every instrument call of OnAfterEvent, for an evaluation and for a policy
\* operation alike, is made under it.
C22_ContextPassedThrough ==
    /\ \A c \in Contexts :
            NewOpenTelemetryLoggerWithContext(c, WorkingMeter).logger[1].ctx = c
    /\ \A m \in Meters :
            NewOpenTelemetryLogger(m) = NewOpenTelemetryLoggerWithContext(Background, m)
    /\ variant = Meter =>
            /\ ctx = NewOpenTelemetryLoggerWithContext(RequestContext,
                                                       WorkingMeter).logger[1].ctx
            /\ ctx = RequestContext
            /\ \A i \in DOMAIN emissions : emissions[i].ctx = ctx

\* A policy operation of five rules recorded by the meter variant: its three
\* instrument calls carry the request's context.
C22_Witness ==
    /\ variant = Meter
    /\ op = "OnAfterEvent"
    /\ entry.EventType = EventAddPolicy
    /\ entry.RuleCount = 5
    /\ Len(emissions) = 3
    /\ \A i \in 1..3 : emissions[i].ctx = RequestContext

-----------------------------------------------------------------------------
(* What the hooks write *)

\* C26: OnBeforeEvent changes the record it is given and nothing else: the
\* Enabled-Event Set, the callback, the instruments and the stored context are
\* as they were, no instrument and no callback is called; so when the host
\* drops a record after its OnBeforeEvent and builds the next one, the logger
\* is as it was before that record.
C26_OnBeforeEventWritesTheRecordOnly ==
    [][/\ op' = "OnBeforeEvent"
            => (/\ enabledEventTypes' = enabledEventTypes
                /\ callback' = callback
                /\ instruments' = instruments
                /\ ctx' = ctx
                /\ emissions' = <<>>
                /\ invocations' = <<>>
                /\ ret' = Nil)
       /\ (op = "OnBeforeEvent" /\ op' = "NewEntry")
            => (/\ enabledEventTypes' = enabledEventTypes
                /\ callback' = callback
                /\ instruments' = instruments
                /\ ctx' = ctx
                /\ emissions' = <<>>
                /\ invocations' = <<>>)]_vars

\* An evaluation activated at 2 under a filter and a failing callback: no
\* instrument call, no callback call.
C26_Witness ==
    /\ op = "OnBeforeEvent"
    /\ entry.IsActive
    /\ entry.EventType = EventEnforce
    /\ entry.StartTime = 2
    /\ EnabledSet = {EventEnforce}
    /\ callback = cbErr
    /\ emissions = <<>>
    /\ invocations = <<>>

\* The fields of a record that the host supplies.
HostFields(e) ==
    [EventType |-> e.EventType, Subject |-> e.Subject, Object |-> e.Object,
     Action |-> e.Action, Domain |-> e.Domain, Allowed |-> e.Allowed,
     RuleCount |-> e.RuleCount, Error |-> e.Error]

\* The gate's decision on a kind under the map of enabled kinds.
Admits(enabled, k) == MapLen(enabled) = 0 \/ MapGet(enabled, k)

\* C27: the hooks write four fields of the record and no other.  OnBeforeEvent
\* writes is_active, whatever the host put there, and start_time when it
\* activates the record; OnAfterEvent writes end_time and duration when the
\* record is active; the kind and the host's fields are after either hook
\* what they were before it, and so after any sequence of them.
C27_HooksWriteFourFields ==
    [][/\ op' \in {"OnBeforeEvent", "OnAfterEvent"}
            => HostFields(entry') = HostFields(entry)
       /\ op' = "OnBeforeEvent"
            => (/\ entry'.IsActive = Admits(enabledEventTypes, entry.EventType)
                /\ entry'.StartTime = IF entry'.IsActive THEN now' ELSE entry.StartTime
                /\ entry'.EndTime = entry.EndTime
                /\ entry'.Duration = entry.Duration)
       /\ op' = "OnAfterEvent"
            => (/\ entry'.IsActive = entry.IsActive
                /\ entry'.StartTime = entry.StartTime
                /\ entry'.EndTime = IF entry.IsActive THEN now' ELSE entry.EndTime
                /\ entry'.Duration = IF entry.IsActive
                                     THEN now' - entry.StartTime
                                     ELSE entry.Duration)]_vars

\* A failed RemovePolicy of negative rule_count, active from 1 to 2 and
\* recorded: kind, error and rule_count are the host's.
C27_Witness ==
    /\ op = "OnAfterEvent"
    /\ entry.IsActive
    /\ entry.EventType = EventRemovePolicy
    /\ entry.Error = "test error"
    /\ entry.RuleCount = -1
    /\ entry.StartTime = 1
    /\ entry.EndTime = 2
    /\ entry.Duration = 1
    /\ Len(emissions) = 2

-----------------------------------------------------------------------------
(* The instruments *)

\* C28: the logger's five instrument fields are, after any sequence of
\* SetEventTypes, SetLogCallback, OnBeforeEvent and OnAfterEvent, the
\* instruments its constructor created, none nil, and each getter of the meter
\* variant gives the instrument of its name.
C28_InstrumentsImmutable ==
    /\ logger # Nil
    /\ instruments = IF variant = Meter
                     THEN NewOpenTelemetryLoggerWithContext(
                              RequestContext, WorkingMeter).logger[1].instruments
                     ELSE NewOpenTelemetryLoggerWithMeterProvider(
                              WorkingMeter).logger[1].instruments
    /\ \A name \in Instruments : instruments[name] = name /\ instruments[name] # Nil
    /\ variant = Meter =>
            /\ GetEnforceDuration(instruments) = enforceDuration
            /\ GetEnforceTotal(instruments) = enforceTotal
            /\ GetPolicyOpsTotal(instruments) = policyOpsTotal
            /\ GetPolicyOpsDuration(instruments) = policyOpsDuration
            /\ GetPolicyRulesCount(instruments) = policyRulesCount

\* The meter variant after a filter of two kinds and a callback were set and
\* a policy operation was recorded: the gauge is the constructor's.
C28_Witness ==
    /\ variant = Meter
    /\ op = "OnAfterEvent"
    /\ entry.IsActive
    /\ entry.EventType = EventAddPolicy
    /\ EnabledSet = {EventEnforce, EventAddPolicy}
    /\ callback = cbErr
    /\ policyRulesCount \in Touched
    /\ GetPolicyRulesCount(instruments) = policyRulesCount

-----------------------------------------------------------------------------
(* OnAfterEvent called again *)

\* What the last operation recorded or handed to the callback.
Recorded == emissions # <<>> \/ invocations # <<>>

\* C30: OnAfterEvent leaves is_active set: the record it has just recorded is
\* still active, and a further OnAfterEvent on it, at any time, with no
\* OnBeforeEvent between, writes end_time and duration anew, makes the
\* record's instrument calls again and invokes the callback again.
C30_SecondAfterRecordsAgain ==
    (op = "OnAfterEvent" /\ Recorded)
        => (/\ entry.IsActive
            /\ \A t \in Now :
                    LET r == OnAfterEventTimes([entry |-> entry, emissions |-> <<>>,
                                                invocations |-> <<>>, rets |-> <<>>],
                                               1, t)
                    IN  /\ r.entry.IsActive
                        /\ r.entry.EndTime = t
                        /\ r.entry.Duration = t - entry.StartTime
                        /\ Len(r.emissions) = Len(emissions)
                        /\ \A i \in DOMAIN emissions :
                                /\ r.emissions[i].instrument = emissions[i].instrument
                                /\ r.emissions[i].attrs = emissions[i].attrs
                        /\ Len(r.invocations) = Len(invocations)
                        /\ r.rets = <<ret>>)

\* An evaluation recorded at 1 with a callback registered; the call repeated
\* at 2 moves end_time to 2, records twice more and invokes the callback.
C30_Witness ==
    /\ op = "OnAfterEvent"
    /\ entry.IsActive
    /\ entry.EventType = EventEnforce
    /\ entry.EndTime = 1
    /\ now = 1
    /\ callback = cbNil
    /\ Len(emissions) = 2
    /\ LET r == OnAfterEventTimes([entry |-> entry, emissions |-> <<>>,
                                   invocations |-> <<>>, rets |-> <<>>], 1, 2)
       IN  /\ r.entry.EndTime = 2
           /\ r.entry.Duration = 1
           /\ Len(r.emissions) = 2
           /\ Len(r.invocations) = 1

-----------------------------------------------------------------------------
(* Reconfiguration between the hooks; the totals *)

\* What the backend holds of the record the host has just completed.
Counted == emissions # <<>>

\* C25: the map of enabled kinds in force at a record's OnBeforeEvent fixes its
\* fate.  OnBeforeEvent decides by the map the last SetEventTypes installed;
\* a record it activated is recorded by OnAfterEvent and a record it filtered
\* is not, whatever SetEventTypes has made of the map in between.
C25_FateFixedAtOnBeforeEvent ==
    /\ (host.phase = "before" /\ op = "OnBeforeEvent")
            => (/\ host.admitted = Admits(enabledEventTypes, entry.EventType)
                /\ entry.IsActive = Admits(enabledEventTypes, entry.EventType))
    /\ host.phase \in {"before", "after"} => entry.IsActive = host.admitted
    /\ host.phase = "after" => (entry.EndTime # ZeroTime <=> host.admitted)
    /\ (host.phase = "after" /\ op = "OnAfterEvent"
            /\ entry.EventType \in KnownEventTypes)
            => (/\ Counted = host.admitted
                /\ Counted => KindIsRecorded)

\* An AddPolicy admitted at its OnBeforeEvent and recorded under a filter that
\* holds evaluations alone.
C25_Witness ==
    /\ host.phase = "after"
    /\ op = "OnAfterEvent"
    /\ entry.EventType = EventAddPolicy
    /\ host.admitted
    /\ EnabledSet = {EventEnforce}
    /\ entry.IsActive
    /\ Touched = {policyOpsTotal, policyOpsDuration}

\* C29: under the well-formed host, whatever it reconfigures between the
\* calls, the evaluation counter stands at the number of completed active
\* evaluations, the mutation counter at the number of completed active
\* mutations, each histogram has as many observations as its counter counts,
\* and the gauge was recorded once per completed active mutation of positive
\* rule_count.
C29_TotalsMatchCompletedRecords ==
    host.phase \in {"new", "before", "after"}
        => (/\ totals[enforceTotal] = host.enforced
            /\ totals[policyOpsTotal] = host.mutated
            /\ totals[enforceDuration] = totals[enforceTotal]
            /\ totals[policyOpsDuration] = totals[policyOpsTotal]
            /\ totals[policyRulesCount] = host.gauged
            /\ host.enforced + host.mutated <= host.records)

\* Two records completed, an evaluation and a mutation of five rules, one
\* filter change on the way.
C29_Witness ==
    /\ host.phase = "after"
    /\ host.records = 2
    /\ totals[enforceTotal] = 1
    /\ totals[enforceDuration] = 1
    /\ totals[policyOpsTotal] = 1
    /\ totals[policyOpsDuration] = 1
    /\ totals[policyRulesCount] = 1
    /\ EnabledSet # {}

\* The places of a goroutine at which its OnBeforeEvent has returned.
PastBefore == {"active", "end", "record", "callback", "call", "done"}

\* OnBeforeEvent and then OnAfterEvent run on the record of goroutine r with
\* no other operation in flight, the clock read as r read it.
OneAfterAnother(r) ==
    LET b == IF variant = Meter
             THEN OnBeforeEvent(enabledEventTypes, r.first, r.tB)
             ELSE OnBeforeEvent_provider(enabledEventTypes, r.first, r.tB)
        a == IF variant = Meter
             THEN OnAfterEvent(callback, ctx, b.entry, r.tA)
             ELSE OnAfterEvent_provider(callback, b.entry, r.tA)
    IN  [before |-> b, after |-> a]

\* What goroutine r left behind is what the two hooks leave behind when run
\* one after another.
SameAsOneAfterAnother(r) ==
    LET s == OneAfterAnother(r)
    IN  /\ r.pc \in PastBefore =>
            /\ r.entry.IsActive = s.before.entry.IsActive
            /\ r.entry.StartTime = s.before.entry.StartTime
        /\ r.pc = "active" => r.entry = s.before.entry /\ r.ret = s.before.ret
        /\ r.pc = "done" =>
            /\ r.entry = s.after.entry
            /\ r.emissions = s.after.emissions
            /\ r.ret = s.after.ret
            /\ r.invoked = [i \in DOMAIN s.after.invocations |->
                               s.after.invocations[i].callback]
        /\ r.pc # "panicked"

\* C21: with the configuration left alone, whatever way the statements of the
\* hooks of two operations in flight interleave, each record ends with the
\* IsActive, the timestamps, the instrument calls (instrument, value,
\* attributes), the callback call and the result that OnBeforeEvent and
\* OnAfterEvent give it when run alone, and a statement of one operation leaves
\* the record of the other as it was.
C21_ConcurrentHooksAsSequential ==
    /\ [](\A g \in DOMAIN goroutines : SameAsOneAfterAnother(goroutines[g]))
    /\ [][\A g, h \in DOMAIN goroutines :
            (g # h /\ goroutines'[g] # goroutines[g]) => goroutines'[h] = goroutines[h]]_vars

\* The second operation read the clock for its StartTime before the first did
\* and is still in OnAfterEvent when the first is through: the first ran
\* wholly within the second; both were recorded.
C21_Witness ==
    /\ DOMAIN goroutines = Goroutines
    /\ goroutines["first"].pc = "done"
    /\ goroutines["first"].emissions # <<>>
    /\ goroutines["second"].pc = "callback"
    /\ goroutines["second"].emissions # <<>>
    /\ goroutines["second"].tB < goroutines["first"].tB
    /\ goroutines["first"].first.EventType # goroutines["second"].first.EventType
    /\ DOMAIN enabledEventTypes # {}

\* The set of enabled kinds before the concurrent SetEventTypes call.
OldSet == configurator.oldEventTypes

\* The set of enabled kinds the concurrent SetEventTypes call is to leave; the
\* old one as long as it has not been called.
NewSet ==
    IF configurator.call # "SetEventTypes" THEN configurator.oldEventTypes
    ELSE IF variant = Meter
         THEN SetEventTypes(configurator.eventTypes)
         ELSE SetEventTypes_provider(configurator.eventTypes)

\* C23: an OnBeforeEvent that runs while another goroutine is in
\* SetEventTypes(new) decides IsActive as the whole old set or the whole new
\* set has it, never by a set in between, such as the empty map between make
\* and the first insertion, which lets every kind through; so a kind that is
\* in neither of two non-empty sets is not activated.  (The code takes no lock
\* and swaps no snapshot: the statement is violated.)
C23_GateSeesOldOrNewSet ==
    \A g \in DOMAIN goroutines :
        LET r == goroutines[g]
            k == r.first.EventType
        IN  (configurator.pc # "none" /\ r.pc \in PastBefore) =>
                r.entry.IsActive \in {Admits(OldSet, k), Admits(NewSet, k)}

\* C24: an OnAfterEvent on an active record that runs while another goroutine
\* clears or replaces the callback with SetLogCallback either calls one of the
\* two callbacks, the old or the new, once, or calls none and returns nil; it
\* never calls a callback that is not there.  (l.callback is read for the test
\* and again for the call, with no lock: the statement is violated.)
C24_NeverCallsAbsentCallback ==
    \A g \in DOMAIN goroutines :
        LET r == goroutines[g]
        IN  /\ r.pc # "panicked"
            /\ (configurator.pc # "none" /\ r.pc = "done" /\ r.entry.IsActive) =>
                \/ /\ Len(r.invoked) = 1
                   /\ r.invoked[1] # Nil
                   /\ r.invoked[1] \in {configurator.oldCallback, configurator.newCallback}
                \/ /\ r.invoked = <<>>
                   /\ r.ret = Nil

-----------------------------------------------------------------------------
(* The permissive state *)

\* The arguments of SetEventTypes looked at: the slices the host passes and
\* the slices of one kind, known or not.
Arguments == EventTypeSlices \cup {<<k>> : k \in EventTypes}

\* What OnBeforeEvent makes of IsActive on the host's record, were it of kind
\* k, under the map of enabled kinds.
Gate(enabled, k) ==
    LET e == [entry EXCEPT !.EventType = k]
    IN  IF variant = Meter
        THEN OnBeforeEvent(enabled, e, now).entry.IsActive
        ELSE OnBeforeEvent_provider(enabled, e, now).entry.IsActive

\* C31: SetEventTypes with no kinds leaves the empty map, whatever filter was
\* in force, and under the empty map OnBeforeEvent activates the record of
\* every kind; under the map any argument leaves, OnBeforeEvent activates the
\* records of some kind (of the kinds in the argument, when there are any), so
\* no argument turns every kind off.
C31_EmptyFilterIsPermissive ==
    /\ [](\A eventTypes \in Arguments :
            LET m == IF variant = Meter
                     THEN SetEventTypes(eventTypes)
                     ELSE SetEventTypes_provider(eventTypes)
            IN  /\ Len(eventTypes) = 0 =>
                    /\ m = MakeMap
                    /\ \A k \in EventTypes : Gate(m, k)
                /\ \E k \in EventTypes : Gate(m, k)
                /\ \A k \in KindsOf(eventTypes) : Gate(m, k))
    /\ [][(op' = "OnBeforeEvent" /\ enabledEventTypes = MakeMap) => entry'.IsActive]_vars

\* A filter was in force, it turned off a record the host had handed over
\* active, and SetEventTypes with no kinds has now emptied it.
C31_Witness ==
    /\ op = "SetEventTypes"
    /\ enabledEventTypes = MakeMap
    /\ ~entry.IsActive
    /\ entry.StartTime # ZeroTime
    /\ \A k \in EventTypes : Gate(enabledEventTypes, k)

-----------------------------------------------------------------------------
(* The two variants side by side *)

\* The instrument calls without the context they were handed.
WithoutContext(calls) ==
    [i \in DOMAIN calls |->
        [instrument |-> calls[i].instrument, value |-> calls[i].value,
         attrs |-> calls[i].attrs]]

\* The two variants of a hook result agree but for the context of the calls.
SameButContext(a, b) ==
    /\ a.entry = b.entry
    /\ a.ret = b.ret
    /\ a.invocations = b.invocations
    /\ WithoutContext(a.emissions) = WithoutContext(b.emissions)

\* C32: from the same configuration and the same record, each operation of
\* the meter variant and the same operation of the provider variant leave the
\* same configuration and the same record, return the same, call the same
\* callback and make the same instrument calls (instrument, value,
\* attributes), whatever context the meter variant holds; so do, step by
\* step, any two equal sequences of operations.
C32_VariantsAgree ==
    /\ \A eventTypes \in EventTypeSlices :
            SetEventTypes(eventTypes) = SetEventTypes_provider(eventTypes)
    /\ \A cb \in Callbacks \cup {Nil} : SetLogCallback(cb) = SetLogCallback_provider(cb)
    /\ \A t \in Now :
        /\ OnBeforeEvent(enabledEventTypes, entry, t)
                = OnBeforeEvent_provider(enabledEventTypes, entry, t)
        /\ \A c \in Contexts :
                SameButContext(OnAfterEvent(callback, c, entry, t),
                               OnAfterEvent_provider(callback, entry, t))

\* The provider variant has recorded a policy operation with its rule count
\* under a filter and called the callback; the meter variant, holding the
\* request's context, makes the same calls on the same record under that
\* context.
C32_Witness ==
    /\ variant = Provider
    /\ op = "OnAfterEvent"
    /\ entry.IsActive
    /\ entry.EventType = EventAddPolicy
    /\ entry.RuleCount = 5
    /\ DOMAIN enabledEventTypes # {}
    /\ callback = cbErr
    /\ ret = CallbackError
    /\ Len(emissions) = 3
    /\ Len(invocations) = 1
    /\ OnAfterEvent(callback, RequestContext, entry, now).emissions
            # OnAfterEvent_provider(callback, entry, now).emissions

\* The contexts a sequence of instrument calls was made under.
ContextsOf(calls) == {calls[i].ctx : i \in DOMAIN calls}

\* The kinds OnAfterEvent records.
RecordedEventTypes == {EventEnforce} \cup PolicyEventTypes

\* C33 as stated: the record calls of the two variants are made under
\* different contexts, the one stored at construction against a background
\* one, for the policy operations, and under the same context for the
\* evaluations.  (recordEnforceMetrics too records under l.ctx in the one
\* variant and under context.Background() in the other: violated.)
C33_DifferForMutationsOnly ==
    \A c \in Contexts \ {Background} :
        LET m == OnAfterEvent(callback, c, entry, now).emissions
            p == OnAfterEvent_provider(callback, entry, now).emissions
        IN  /\ (entry.IsActive /\ entry.EventType \in PolicyEventTypes) =>
                    ContextsOf(m) # ContextsOf(p)
            /\ entry.EventType = EventEnforce => ContextsOf(m) = ContextsOf(p)

\* C33, amended: for every kind that is recorded, evaluations and policy
\* operations alike, each record call of the meter variant is made under the
\* context stored at construction and each record call of the provider
\* variant under a background context; the calls differ in nothing else.
C33_DifferForEveryRecordedKind ==
    \A c \in Contexts :
        LET m == OnAfterEvent(callback, c, entry, now).emissions
            p == OnAfterEvent_provider(callback, entry, now).emissions
        IN  /\ WithoutContext(m) = WithoutContext(p)
            /\ (entry.IsActive /\ entry.EventType \in RecordedEventTypes) =>
                /\ ContextsOf(m) = {c}
                /\ ContextsOf(p) = {Background}

\* The meter variant has recorded an evaluation under the request's context;
\* the provider variant records the same under a background context.
C33_Witness ==
    /\ variant = Meter
    /\ op = "OnAfterEvent"
    /\ entry.IsActive
    /\ entry.EventType = EventEnforce
    /\ ctx = RequestContext
    /\ ContextsOf(emissions) = {RequestContext}
    /\ ContextsOf(OnAfterEvent_provider(callback, entry, now).emissions) = {Background}

-----------------------------------------------------------------------------
(* Progress *)

\* The hooks of goroutine g are over.
Ended(g) == g \in DOMAIN goroutines /\ goroutines[g].pc \in {"done", "panicked"}

\* C34: no operation waits.  Whatever the other goroutines are doing, a
\* goroutine inside OnBeforeEvent or OnAfterEvent can take its next statement,
\* and so can the one inside SetEventTypes; given that each goroutine is
\* scheduled and that the callback returns, every OnBeforeEvent and
\* OnAfterEvent started comes to an end and so does every SetEventTypes;
\* SetLogCallback is one statement.
C34_NoOperationBlocks ==
    /\ [](\A g \in DOMAIN goroutines : ~Ended(g) => ENABLED StepOf(g))
    /\ [](configurator.pc = "range" => ENABLED SetterStep)
    /\ [](configurator.pc = "idle" => ENABLED RaceSetLogCallback /\ ENABLED RaceMake)
    /\ \A g \in Goroutines : (g \in DOMAIN goroutines) ~> Ended(g)
    /\ (configurator.pc = "range") ~> (configurator.pc = "done")

\* Both operations are through although they ran while SetEventTypes was
\* under way, and SetEventTypes is through too.
C34_Witness ==
    /\ DOMAIN goroutines = Goroutines
    /\ \A g \in Goroutines : goroutines[g].pc = "done"
    /\ goroutines["first"].emissions # <<>>
    /\ ~goroutines["second"].entry.IsActive
    /\ configurator.pc = "done"
    /\ configurator.call = "SetEventTypes"
    /\ Len(configurator.eventTypes) = MaxLen

====
